---- MODULE Spec2Model ----
(***************************************************************************)
(* State-machine model of kopi's host-function binding layer:              *)
(* Extension (function registry), Runtime::new (installation of the        *)
(* declarations into the global object and the namespace objects),         *)
(* the callback trampolines (closure, static, fastcall), the per-runtime   *)
(* state cell (Rc<RefCell<S>>), Runtime::execute and Drop for Runtime,     *)
(* and of the conversion layer between native and engine values            *)
(* (Serialize, Deserialize, IntoValue, FromValue) for the primitive types. *)
(***************************************************************************)
EXTENDS Integers, Sequences, FiniteSets, TLC

\* ------------------------------------------------------------------ bounds
\* Number of add_* calls the host makes over all extensions.
MaxAdds == 2
\* Nesting depth of native callbacks (a callback entered while another one
\* is suspended in the string coercion of one of its arguments).
MaxDepth == 2
\* Number of execute calls on the runtime.
MaxExec == 2
\* Distance from zero and from each power of two up to which the integers
\* given to the conversions are taken.
MaxOff == 2
\* Number of threads that call initialize_v8 and Runtime::new.
MaxThreads == 2
\* Number of initialize_v8 calls each thread makes.
MaxInitCalls == 2
\* Number of runtimes in the process.
MaxRuntimes == 2
\* Number of execute calls on each of them.
MaxScripts == 2

\* --------------------------------------------------------------- constants
\* The increment of the stateful test functions (state.0 += 5).
Delta == 5
\* The initial host state of the stateful test (State(55)).
InitialState == 55

\* ------------------------------------------------------------ input domains
\* Positions of the extensions in RuntimeOptions.extensions.
ExtIds == {1, 2}
\* Function names used by the host.
Names == {"a", "f"}
\* Option<String> namespace of an extension; NoNs is None.
NoNs == "<none>"
Namespaces == {NoNs, "a"}
\* Property names of the global object.
PropNames == Names \cup (Namespaces \ {NoNs})

\* The state type S of Runtime<S> / Extension<S>.
RuntimeStateType == "S"

\* Host functions handed to the registration API.
\*   counter         closure |(a, b)| -> R        (add_function), R a host
\*                   type whose IntoValue conversion can fail
\*   adder           closure |state, (a, b)| { *state += 5; *state }
\*                                                 (add_function_with_state)
\*   sub_from_state  static_function!  fn(state: &mut S, x: i32)
\*   bad_state       static_function!  fn(state: &mut T) {}  with T /= S
\*   add_to_state    fastcall_function! fn(state: &mut S, x: i32) -> i32
HostFns == {"counter", "adder", "sub_from_state", "bad_state", "add_to_state"}

Sig(f) ==
    CASE f = "counter" ->
           [api |-> "add_function", stateful |-> FALSE, stateType |-> "-",
            nparams |-> 2, ret |-> "custom"]
      [] f = "adder" ->
           [api |-> "add_function_with_state", stateful |-> TRUE,
            stateType |-> RuntimeStateType, nparams |-> 2, ret |-> "i32"]
      [] f = "sub_from_state" ->
           [api |-> "add_static_function", stateful |-> TRUE,
            stateType |-> "S", nparams |-> 1, ret |-> "unit"]
      [] f = "bad_state" ->
           [api |-> "add_static_function", stateful |-> TRUE,
            stateType |-> "T", nparams |-> 0, ret |-> "unit"]
      [] f = "add_to_state" ->
           [api |-> "add_fastcall_function", stateful |-> TRUE,
            stateType |-> "S", nparams |-> 1, ret |-> "i32"]

VARIABLES
    v8_initialized, \* V8_INITIALIZATION.is_completed()
    namespace,      \* Extension.namespace, per extension
    declarations,   \* Extension.declarations: HashMap as a set of <<name, decl>>
    closures,       \* Extension.closures: Vec<Arc<dyn Any>> as a sequence of object ids
    heap,           \* the function objects created by the add_* calls, by id
    lastAdd,        \* per extension and name, the id of the most recent add_* call
    phase,          \* position of the host program
    isolate,        \* Runtime.isolate
    global,         \* the global object of the main context
    nsobj,          \* the namespace object created for each namespaced extension
    rt_closures,    \* Runtime._closures
    cell,           \* Runtime._state: the Rc<RefCell<S>>
    stack,          \* native callbacks suspended in an argument conversion
    last,           \* the native call that completed last in the running execute
    result,         \* what the last execute returned, and for which script value
    nexec,          \* number of execute calls made
    ndropped,       \* number of fields of the runtime dropped so far
    ncalls,         \* number of bodies of the adding closure run on the runtime
    conv,           \* the value conversion applied last, with its outcome
    steps,          \* the steps of Runtime::new completed by the last call
    installed,      \* the functions set on template and namespace objects by it
    once,           \* V8_INITIALIZATION and the threads calling initialize_v8
    rts             \* the runtimes of the process, their scripts' globals and states

vars == <<v8_initialized, namespace, declarations, closures, heap, lastAdd,
          phase, isolate, global, nsobj, rt_closures, cell, stack, last,
          result, nexec, ndropped, ncalls, conv, steps, installed, once, rts>>

extVars == <<namespace, declarations, closures, heap, lastAdd>>
rtVars == <<isolate, global, nsobj, rt_closures>>
runVars == <<stack, last, result, nexec>>
auxVars == <<once, rts>>
traceVars == <<steps, installed>>
hostVars == <<v8_initialized, extVars, phase, rtVars, cell, runVars, ndropped, ncalls, traceVars>>

\* ------------------------------------------------------------------ values
NoData == [t |-> "none", obj |-> 0]
Undefined == [t |-> "undefined", callback |-> "-", data |-> NoData, id |-> 0, ext |-> 0]
EmptyObject == [n \in PropNames |-> Undefined]
\* Return values of Runtime::new and Runtime::execute: the status, the value
\* of the script (or the payload of the error) the status was computed from,
\* and the requested type T.
NoResult == [status |-> "none", value |-> "-", type |-> "-"]
Returned(status, value, T) == [status |-> status, value |-> value, type |-> T]

\* The sub-models of initialization and of the scripts are not in use.
NoOnce == [state |-> "unused"]
NoRts == [mode |-> "unused"]

\* No conversion applied yet.
NoConv == [op |-> "none", res |-> "none"]

NoCall == [callback |-> "-", id |-> 0, failedArg |-> 0, converted |-> {},
           bodyRan |-> FALSE, stateBefore |-> 0, stateAfter |-> 0,
           nested |-> 0, completion |-> "-", value |-> "-", fast |-> FALSE,
           heldAtEntry |-> 0, ret |-> 0]

\* Script values handed to a native function as positional arguments:
\* a 32-bit integer, a string primitive, an object with a toString method.
ArgTuples == {<<"int", "int">>, <<"str", "obj">>, <<"int", "obj">>, <<"obj", "int">>}

\* Call expressions of a script: name(...) and namespace.name(...).
Paths == [ns : Namespaces, name : PropNames]

\* Result types T of execute::<T>.
ResultTypes == {"i32", "unit"}

\* -------------------------------------------------------------- Extension
\* A map that keeps the earlier entries of a key next to the new one.
HashMapInsert_keepOld(map, name, decl) ==
    map \cup {<<name, decl>>}

\* HashMap::insert: the entry of the key is replaced.
HashMapInsert(map, name, decl) ==
    {p \in map : p[1] /= name} \cup {<<name, decl>>}

\* A declaration whose data pointer is that of the first function object.
MakeDeclaration_firstData(f, id) ==
    CASE Sig(f).api \in {"add_function", "add_function_with_state"} ->
           [kind |-> "Closure", cb_data |-> 1, callback |-> f, id |-> id]
      [] Sig(f).api = "add_static_function" ->
           [kind |-> "Static", cb_data |-> 0, callback |-> f, id |-> id]
      [] Sig(f).api = "add_fastcall_function" ->
           [kind |-> "Fastcall", cb_data |-> 0, callback |-> f, id |-> id]

\* The declaration each add_* method builds for the function object `id`.
MakeDeclaration(f, id) ==
    CASE Sig(f).api \in {"add_function", "add_function_with_state"} ->
           [kind |-> "Closure", cb_data |-> id, callback |-> f, id |-> id]
      [] Sig(f).api = "add_static_function" ->
           [kind |-> "Static", cb_data |-> 0, callback |-> f, id |-> id]
      [] Sig(f).api = "add_fastcall_function" ->
           [kind |-> "Fastcall", cb_data |-> 0, callback |-> f, id |-> id]

\* Where the function object lives after the add_* call: add_function keeps
\* it in an Arc, add_function_with_state leaks a Box, the macro-generated
\* unit structs of static and fastcall functions own no allocation.
MakeObject(f) ==
    [fn |-> f,
     mem |-> CASE Sig(f).api = "add_function" -> "arc"
               [] Sig(f).api = "add_function_with_state" -> "leaked"
               [] OTHER -> "static"]

\* add_function pushes the Arc to Extension.closures; the others do not.
ClosuresAfterAdd(cl, f, id) ==
    IF Sig(f).api = "add_function" THEN Append(cl, id) ELSE cl

\* Extension::add_function / add_function_with_state / add_static_function /
\* add_fastcall_function on extension e.
Add(e, name, f) ==
    /\ phase = "setup"
    /\ Len(heap) < MaxAdds
    /\ LET id == Len(heap) + 1 IN
         /\ heap' = Append(heap, MakeObject(f))
         /\ declarations' = [declarations EXCEPT
                               ![e] = HashMapInsert(@, name, MakeDeclaration(f, id))]
         /\ closures' = [closures EXCEPT ![e] = ClosuresAfterAdd(@, f, id)]
         /\ lastAdd' = [lastAdd EXCEPT ![e][name] = id]
    /\ UNCHANGED <<auxVars, traceVars, conv, ncalls, v8_initialized, namespace, phase, rtVars, cell, runVars, ndropped>>

\* initialize_v8: Once::call_once.
InitializeV8 ==
    /\ phase = "setup"
    /\ ~v8_initialized
    /\ v8_initialized' = TRUE
    /\ UNCHANGED <<auxVars, traceVars, conv, ncalls, extVars, phase, rtVars, cell, runVars, ndropped>>

\* ------------------------------------------------------------ Runtime::new
\* Rc::as_ptr(&state): the address of the state cell of the runtime.
state_ptr == [t |-> "state", obj |-> 0]

\* isolate_scope.set_data(STATE_DATA_SLOT, state_ptr): what the slot holds.
SlotData == state_ptr

\* A fastcall function whose external data is its own object.
FastcallExternal_ownObject(decl) == [t |-> "closure", obj |-> decl.id]

\* External::new(scope, state_ptr) of a Fastcall declaration.
FastcallExternal(decl) == state_ptr

\* The function object built for a declaration of extension e: a Closure
\* carries its cb_data as External, a Static carries no data, a Fastcall
\* carries the state pointer.
MakeFunction(decl, e) ==
    [t |-> "fn", callback |-> decl.callback,
     data |-> CASE decl.kind = "Closure" -> [t |-> "closure", obj |-> decl.cb_data]
                [] decl.kind = "Static" -> NoData
                [] decl.kind = "Fastcall" -> FastcallExternal(decl),
     id |-> decl.id, ext |-> e]

\* A set that leaves a property alone once it is defined.
SetProperty_firstWins(obj, name, val) ==
    IF obj[name].t = "undefined" THEN [obj EXCEPT ![name] = val] ELSE obj

\* v8 Template::set / Object::set: the property is (re)defined.
SetProperty(obj, name, val) == [obj EXCEPT ![name] = val]

\* `for (function_name, function_declaration) in declarations.drain()`:
\* every declaration of extension e is set on obj.
InstallDeclarations(obj, e) ==
    [n \in PropNames |->
        IF \E p \in declarations[e] : p[1] = n
        THEN MakeFunction((CHOOSE p \in declarations[e] : p[1] = n)[2], e)
        ELSE obj[n]]

\* A first loop that does not filter on the namespace.
RECURSIVE InstallGlobals_unfiltered(_, _)
InstallGlobals_unfiltered(e, tmpl) ==
    IF e \notin ExtIds THEN tmpl
    ELSE InstallGlobals_unfiltered(e + 1, InstallDeclarations(tmpl, e))

\* First loop of Runtime::new: the extensions without namespace, in list
\* order, on the global template.
RECURSIVE InstallGlobals(_, _)
InstallGlobals(e, tmpl) ==
    IF e \notin ExtIds THEN tmpl
    ELSE InstallGlobals(e + 1,
            IF namespace[e] = NoNs THEN InstallDeclarations(tmpl, e) ELSE tmpl)

\* The object created for a namespaced extension.
NamespaceObject(e) ==
    IF namespace[e] = NoNs THEN EmptyObject
    ELSE InstallDeclarations(EmptyObject, e)

\* Second loop of Runtime::new: one object per namespaced extension, in
\* list order, set on the global object under the namespace name.
RECURSIVE InstallNamespaces(_, _)
InstallNamespaces(e, g) ==
    IF e \notin ExtIds THEN g
    ELSE InstallNamespaces(e + 1,
            IF namespace[e] = NoNs THEN g
            ELSE SetProperty(g, namespace[e],
                    [t |-> "ns", callback |-> "-", data |-> NoData, id |-> 0, ext |-> e]))

\* runtime_closures.append(closures) of both loops.
RECURSIVE CollectClosures(_, _, _)
CollectClosures(e, global_pass, acc) ==
    IF e \notin ExtIds THEN acc
    ELSE CollectClosures(e + 1, global_pass,
            IF (namespace[e] = NoNs) = global_pass THEN acc \o closures[e] ELSE acc)

\* A runtime that keeps the closures of the first loop only.
RuntimeClosures_globalOnly == CollectClosures(1, TRUE, <<>>)

\* Runtime._closures after both loops.
RuntimeClosures == CollectClosures(1, FALSE, CollectClosures(1, TRUE, <<>>))

\* The Arcs still in an extension when the options go out of scope at the
\* end of Runtime::new (append has moved the others to the runtime).
DroppedWithOptions ==
    SelectSeq(closures[1] \o closures[2],
              LAMBDA i : ~\E k \in DOMAIN RuntimeClosures : RuntimeClosures[k] = i)

\* Dropping Arcs: the objects they own are freed.
FreeArcs(h, ids) ==
    [i \in DOMAIN h |->
        IF h[i].mem = "arc" /\ \E k \in DOMAIN ids : ids[k] = i
        THEN [h[i] EXCEPT !.mem = "freed"] ELSE h[i]]

\* A check that takes the engine for initialised.
InitializationCompleted_always == TRUE

\* V8_INITIALIZATION.is_completed().
InitializationCompleted == v8_initialized

\* A first loop that visits every extension.
GlobalPassVisits_all(e) == TRUE

\* `.filter(|e| e.namespace.is_none())` of the first loop.
GlobalPassVisits(e) == namespace[e] = NoNs

\* `.filter(|e| e.namespace.is_some())` of the second loop.
NamespacePassVisits(e) == namespace[e] /= NoNs

\* declarations.drain() of extension e: every entry once, as the set call
\* made for it on the target.
RECURSIVE Drain(_, _, _)
Drain(ds, e, target) ==
    IF ds = {} THEN <<>>
    ELSE LET p == CHOOSE q \in ds : TRUE
         IN  <<[target |-> target, ext |-> e, name |-> p[1], id |-> p[2].id]>>
             \o Drain(ds \ {p}, e, target)

\* The set calls of the first loop from extension e on.
RECURSIVE GlobalPassEvents(_)
GlobalPassEvents(e) ==
    IF e \notin ExtIds THEN <<>>
    ELSE (IF GlobalPassVisits(e) THEN Drain(declarations[e], e, "global_template") ELSE <<>>)
         \o GlobalPassEvents(e + 1)

\* The set calls of the second loop from extension e up to, and without,
\* extension stop; the first loop has drained the extensions it visited.
RECURSIVE NamespacePassEvents(_, _)
NamespacePassEvents(e, stop) ==
    IF e \notin ExtIds \/ e = stop THEN <<>>
    ELSE (IF NamespacePassVisits(e) /\ ~GlobalPassVisits(e)
          THEN Drain(declarations[e], e, "namespace_object") ELSE <<>>)
         \o NamespacePassEvents(e + 1, stop)

\* An order that stores the state pointer after the context is made.
NewSteps_slotAfterContext ==
    <<"initialization_check", "isolate", "global_template", "context",
      "state_slot", "namespaces", "runtime">>

\* The steps of Runtime::new in the order of its statements: the
\* is_completed test, Isolate::new, set_data of the state pointer, the loop
\* over the extensions without namespace on the global template,
\* Context::new_from_template, the loop over the namespaced extensions on
\* the global object, and the Runtime value with closures and state.
NewSteps ==
    <<"initialization_check", "isolate", "state_slot", "global_template",
      "context", "namespaces", "runtime">>

\* The steps begun when the call returns in the step named last.
RECURSIVE StepsUntil(_, _)
StepsUntil(last_step, i) ==
    IF i > Len(NewSteps) THEN <<>>
    ELSE IF NewSteps[i] = last_step THEN <<last_step>>
    ELSE <<NewSteps[i]>> \o StepsUntil(last_step, i + 1)

\* Runtime::new with the engine initialised.
RuntimeNew ==
    /\ phase = "setup"
    /\ InitializationCompleted
    /\ isolate' = "alive"
    /\ cell' = [cell EXCEPT !.mem = "alive"]
    /\ global' = InstallNamespaces(1, InstallGlobals(1, EmptyObject))
    /\ nsobj' = [e \in ExtIds |-> NamespaceObject(e)]
    /\ rt_closures' = RuntimeClosures
    /\ declarations' = [e \in ExtIds |-> {}]
    /\ closures' = [e \in ExtIds |-> <<>>]
    /\ heap' = FreeArcs(heap, DroppedWithOptions)
    /\ phase' = "ready"
    /\ steps' = NewSteps
    /\ installed' = GlobalPassEvents(1) \o NamespacePassEvents(1, 0)
    /\ UNCHANGED <<auxVars, conv, ncalls, v8_initialized, namespace, lastAdd, runVars, ndropped>>

\* Runtime::new where the engine builds no function for a declaration of
\* the namespaced extension e: `.ok_or_else(|| Error::Internal("Can't build
\* function"))?` returns from the second loop; the isolate made by the call,
\* the state and the closures collected so far are dropped with the
\* options, and no Runtime exists.
RuntimeNewBuildFails(e) ==
    /\ phase = "setup"
    /\ InitializationCompleted
    /\ namespace[e] /= NoNs
    /\ declarations[e] /= {}
    /\ phase' = "build_failed"
    /\ result' = Returned("err_internal", "Can't build function", "-")
    /\ steps' = StepsUntil("namespaces", 1)
    /\ installed' = GlobalPassEvents(1) \o NamespacePassEvents(1, e)
    /\ heap' = FreeArcs(heap, closures[1] \o closures[2])
    /\ declarations' = [x \in ExtIds |-> {}]
    /\ closures' = [x \in ExtIds |-> <<>>]
    /\ UNCHANGED <<auxVars, conv, ncalls, v8_initialized, namespace, lastAdd, rtVars, cell, stack, last, nexec,
                   ndropped>>

\* Runtime::new before initialize_v8: Err(V8NotInitialized); the options,
\* and with them the extensions, are dropped.
RuntimeNewNotInitialized ==
    /\ phase = "setup"
    /\ ~InitializationCompleted
    /\ phase' = "new_failed"
    /\ result' = Returned("V8NotInitialized", "-", "-")
    /\ heap' = FreeArcs(heap, closures[1] \o closures[2])
    /\ declarations' = [e \in ExtIds |-> {}]
    /\ closures' = [e \in ExtIds |-> <<>>]
    /\ steps' = StepsUntil("initialization_check", 1)
    /\ installed' = <<>>
    /\ UNCHANGED <<auxVars, conv, ncalls, v8_initialized, namespace, lastAdd, rtVars, cell, stack, last, nexec,
                   ndropped>>

\* ------------------------------------------------ callbacks (trampolines)
\* Property lookup of a call expression in the main context.
Resolve(path) ==
    IF path.ns = NoNs THEN global[path.name]
    ELSE IF global[path.ns].t = "ns" THEN nsobj[global[path.ns].ext][path.name]
    ELSE Undefined

\* FromValue for i32 on the argument values: only an integer converts.
ConvertsToI32(v) == v = "int"

\* The first positional argument in 1..n whose conversion fails, 0 if none:
\* get_argument is called position by position and the first None returns.
FirstBad(args, n) ==
    IF \E j \in 1..n : ~ConvertsToI32(args[j])
    THEN CHOOSE j \in 1..n :
            /\ ~ConvertsToI32(args[j])
            /\ \A k \in 1..(j - 1) : ConvertsToI32(args[k])
    ELSE 0

\* A conversion of all arguments before the first failure is looked at.
ConvertedUpTo_all(bad, n) == 1..n

\* The positions get_argument was called for when position `bad` failed:
\* the let-else after each get_argument returns at the first None.
ConvertedUpTo(bad, n) == 1..bad

\* A callback that keeps its borrow when it returns early.
DropBorrow_kept(c, stateful) ==
    [c EXCEPT !.early = IF stateful THEN @ + 1 ELSE @]

\* `borrow` goes out of scope at the early return of a callback: a stateful
\* callback gives the borrow back; `early` counts these returns.
DropBorrow(c, stateful) ==
    [c EXCEPT !.borrows = IF stateful THEN @ - 1 ELSE @,
              !.early = IF stateful THEN @ + 1 ELSE @]

\* A cell that hands out its borrow unchecked.
CanBorrow_unchecked(c) == TRUE

\* A cell that tolerates a second borrow.
CanBorrow_twice(c) == c.borrows <= 1

\* RefCell::borrow_mut on the state cell: panics unless no borrow is out.
\* The flag precedes the value in RefCell<T> for every T, so a callback
\* declared with another state type tests the same flag.
CanBorrow(c) == c.borrows = 0

\* The host function body on the state value v. The closure and the
\* fastcall function add to the state and the static function subtracts from
\* it (the scripts pass Delta as the integer argument); the stateless
\* closure and bad_state, whose body is empty, leave it alone.
BodyState(f, v) ==
    CASE f \in {"adder", "add_to_state"} -> v + Delta
      [] f = "sub_from_state" -> v - Delta
      [] OTHER -> v

\* A body that returns the state as it was before the addition.
BodyReturn_stale(f, v) ==
    IF f \in {"adder", "add_to_state"} THEN v ELSE 0

\* What the host function body returns on the state value v: the adding
\* functions return the new state, the others return no number.
BodyReturn(f, v) ==
    IF f \in {"adder", "add_to_state"} THEN BodyState(f, v) ELSE 0

\* set_result: nothing is set for `()`, the converted value otherwise, and a
\* TypeError object when IntoValue fails.
SetResult(f, retOk) ==
    CASE Sig(f).ret = "unit" -> [completion |-> "value", value |-> "undefined"]
      [] Sig(f).ret = "i32" -> [completion |-> "value", value |-> "int"]
      [] Sig(f).ret = "custom" ->
           IF retOk THEN [completion |-> "value", value |-> "custom"]
           ELSE [completion |-> "error_value", value |-> "type_error"]

\* get_argument on a failed conversion: the TypeError object becomes the
\* return value of the call.
ArgumentFailure == [completion |-> "error_value", value |-> "type_error"]

\* A native call has completed with record rec and rest is the stack of the
\* callbacks still suspended: the value goes to the script that called.
Complete(rec, rest) ==
    /\ last' = rec
    /\ IF rest = <<>>
       THEN /\ stack' = <<>>
            /\ phase' = "returning"
       ELSE /\ stack' = [rest EXCEPT ![Len(rest)] =
                            [@ EXCEPT !.pc = "resume",
                                      !.nested = @ + rec.nested +
                                                 (IF rec.bodyRan THEN 1 ELSE 0)]]
            /\ phase' = "running"

\* The pointer a stateful callback takes for the state cell: fast_call
\* reads the external data of the function (opts.data.data), every slow
\* path reads the embedder-data slot of the isolate.
StatePointer(fn, fast) == IF fast THEN fn.data ELSE SlotData

\* The function a closure trampoline gets from its data: the object behind
\* the External, `&*(.. .value() as *const c_void as *const F)`.
Recovered(fn) == heap[fn.data.obj].fn

\* The engine invokes the function object fn with args: the trampoline
\* (v8_func, v8_func_with_state, or the generated v8_func / fast_call of a
\* static or fastcall function) runs up to the point where script is
\* re-entered, or to its end.
CallNative(fn, args, fast, retOk) ==
    LET f == fn.callback
        sig == Sig(f)
        bad == IF fast THEN 0 ELSE FirstBad(args, sig.nparams)
        rec == [NoCall EXCEPT !.callback = f, !.id = fn.id, !.fast = fast,
                              !.stateBefore = cell.value,
                              !.stateAfter = cell.value,
                              !.heldAtEntry = cell.borrows]
    IN
    IF fn.data.t = "closure" /\ Recovered(fn) /= f
    THEN \* the data is cast to a function type it does not have
         /\ phase' = "aborted"
         /\ last' = [rec EXCEPT !.completion = "wild_cast"]
         /\ UNCHANGED <<cell, stack, ncalls>>
    ELSE IF sig.stateful /\ StatePointer(fn, fast) /= state_ptr
    THEN \* the pointer is cast to a RefCell it does not point to
         /\ phase' = "aborted"
         /\ last' = [rec EXCEPT !.completion = "wild_pointer"]
         /\ UNCHANGED <<cell, stack, ncalls>>
    ELSE IF sig.stateful /\ ~CanBorrow(cell)
    THEN \* borrow_mut panics
         /\ phase' = "aborted"
         /\ last' = [rec EXCEPT !.completion = "panic"]
         /\ UNCHANGED <<cell, stack, ncalls>>
    ELSE IF bad = 0
    THEN \* all arguments converted: body, then set_result; the borrow ends
         /\ cell' = [cell EXCEPT !.value = BodyState(f, @)]
         /\ ncalls' = IF f = "adder" THEN ncalls + 1 ELSE ncalls
         /\ Complete([rec EXCEPT !.converted = 1..sig.nparams,
                                 !.bodyRan = TRUE,
                                 !.stateAfter = BodyState(f, cell.value),
                                 !.ret = BodyReturn(f, cell.value),
                                 !.completion = SetResult(f, retOk).completion,
                                 !.value = SetResult(f, retOk).value],
                     stack)
    ELSE IF args[bad] = "obj"
    THEN \* rendering the offending object runs its toString: suspended
         /\ cell' = [cell EXCEPT !.borrows = IF sig.stateful THEN @ + 1 ELSE @]
         /\ stack' = Append(stack,
                        [fn |-> fn, args |-> args, at |-> bad, pc |-> "render",
                         stateBefore |-> cell.value, nested |-> 0,
                         heldAtEntry |-> cell.borrows])
         /\ phase' = "running"
         /\ last' = last
         /\ ncalls' = ncalls
    ELSE \* conversion of argument `bad` failed: early return
         /\ cell' = DropBorrow([cell EXCEPT !.borrows = IF sig.stateful THEN @ + 1 ELSE @],
                               sig.stateful)
         /\ ncalls' = ncalls
         /\ Complete([rec EXCEPT !.converted = ConvertedUpTo(bad, sig.nparams),
                                 !.failedArg = bad,
                                 !.completion = ArgumentFailure.completion,
                                 !.value = ArgumentFailure.value],
                     stack)

\* Whether the engine may take the fast path: a fastcall function called
\* with arguments of exactly its primitive parameter types.
FastPathPossible(fn, args) ==
    /\ fn.t = "fn"
    /\ Sig(fn.callback).api = "add_fastcall_function"
    /\ FirstBad(args, Sig(fn.callback).nparams) = 0

\* Runtime::execute of the script `path(args)` up to its first native call.
Execute(path, args, fast, retOk) ==
    /\ phase = "ready"
    /\ nexec < MaxExec
    /\ nexec' = nexec + 1
    /\ result' = NoResult
    /\ LET target == Resolve(path) IN
         /\ fast => FastPathPossible(target, args)
         /\ (~retOk) => (target.t = "fn" /\ Sig(target.callback).ret = "custom")
         /\ IF target.t = "fn"
            THEN CallNative(target, args, fast, retOk)
            ELSE \* not a function: the run throws, Err(Error::EcmaScript)
                 /\ phase' = "returning"
                 /\ last' = [NoCall EXCEPT !.completion = "throw"]
                 /\ UNCHANGED <<cell, stack, ncalls>>
    /\ UNCHANGED <<auxVars, traceVars, conv, v8_initialized, extVars, rtVars, ndropped>>

\* The toString of the object being rendered calls `path(args)`.
ToStringCall(path, args, fast, retOk) ==
    /\ phase = "running"
    /\ stack /= <<>>
    /\ stack[Len(stack)].pc = "render"
    /\ Len(stack) < MaxDepth
    /\ LET target == Resolve(path) IN
         /\ target.t = "fn"
         /\ fast => FastPathPossible(target, args)
         /\ (~retOk) => Sig(target.callback).ret = "custom"
         /\ CallNative(target, args, fast, retOk)
    /\ UNCHANGED <<auxVars, traceVars, conv, v8_initialized, extVars, rtVars, result, nexec, ndropped>>

\* The rendering of the offending object has returned: get_argument sets the
\* TypeError and the suspended callback returns early, dropping its borrow.
Resume ==
    /\ phase = "running"
    /\ stack /= <<>>
    /\ LET fr == stack[Len(stack)]
           sig == Sig(fr.fn.callback)
       IN
         /\ cell' = DropBorrow(cell, sig.stateful)
         /\ Complete([NoCall EXCEPT !.callback = fr.fn.callback, !.id = fr.fn.id,
                                    !.converted = ConvertedUpTo(fr.at, sig.nparams),
                                    !.failedArg = fr.at,
                                    !.stateBefore = fr.stateBefore,
                                    !.stateAfter = cell.value,
                                    !.nested = fr.nested,
                                    !.heldAtEntry = fr.heldAtEntry,
                                    !.completion = ArgumentFailure.completion,
                                    !.value = ArgumentFailure.value],
                     SubSeq(stack, 1, Len(stack) - 1))
    /\ UNCHANGED <<auxVars, traceVars, conv, ncalls, v8_initialized, extVars, rtVars, result, nexec, ndropped>>

\* A conversion that yields a value of T whatever the script value is.
Deserialize_default(value, T) == "ok"

\* T::deserialize of the value of the script.
Deserialize(value, T) ==
    IF T = "unit" \/ value = "int" THEN "ok" ELSE "err_type"

\* An error from an exception that is reported as an internal error.
CreateErrorFromException_internal(exception, T) ==
    Returned("err_internal", "Exception was not set", T)

\* create_error_from_exception: Error::EcmaScript with the rendered message
\* and the line number of the exception the TryCatch holds; Error::Internal
\* when it holds none.
CreateErrorFromException(exception, T) ==
    IF exception = "none"
    THEN Returned("err_internal", "Exception was not set", T)
    ELSE Returned("err_script", "message, line", T)

\* script.run has returned: execute converts the value, or the exception.
ExecuteReturn(T) ==
    /\ phase = "returning"
    /\ result' = IF last.completion = "throw"
                 THEN CreateErrorFromException("uncaught", T)
                 ELSE Returned(Deserialize(last.value, T), last.value, T)
    /\ last' = NoCall
    /\ phase' = "ready"
    /\ UNCHANGED <<auxVars, traceVars, conv, ncalls, v8_initialized, extVars, rtVars, cell, stack, nexec, ndropped>>

\* Script::compile fails: Err(Error::EcmaScript), nothing runs.
ExecuteCompileError(T) ==
    /\ phase = "ready"
    /\ nexec < MaxExec
    /\ nexec' = nexec + 1
    /\ result' = CreateErrorFromException("syntax", T)
    /\ UNCHANGED <<auxVars, traceVars, conv, ncalls, v8_initialized, extVars, rtVars, cell, stack, last, phase, ndropped>>

\* ------------------------------------------------------- Drop for Runtime
\* A Runtime whose state and closures are declared before the isolate.
FieldDropOrder_stateFirst == <<"_state", "_closures", "isolate", "main_context">>

\* The fields of Runtime in declaration order, which is the order in which
\* they are dropped after Drop::drop has returned.
FieldDropOrder == <<"isolate", "main_context", "_closures", "_state">>

\* The field dropped next.
NextField == FieldDropOrder[ndropped + 1]

\* A field has been dropped; after the last one the runtime is gone.
FieldDropped ==
    /\ ndropped' = ndropped + 1
    /\ phase' = IF ndropped + 1 = Len(FieldDropOrder) THEN "dropped" ELSE "dropping"

\* Drop::drop: isolate.terminate_execution(). The runtime is moved into the
\* drop, so the results of its execute calls have been consumed.
DropTerminate ==
    /\ phase = "ready"
    /\ isolate' = "terminated"
    /\ phase' = "dropping"
    /\ result' = NoResult
    /\ UNCHANGED <<auxVars, traceVars, conv, ncalls, v8_initialized, extVars, global, nsobj, rt_closures, cell,
                   stack, last, nexec, ndropped>>

\* isolate: the OwnedIsolate disposes the isolate.
DropIsolate ==
    /\ phase = "dropping"
    /\ NextField = "isolate"
    /\ isolate' = "disposed"
    /\ FieldDropped
    /\ UNCHANGED <<auxVars, traceVars, conv, ncalls, v8_initialized, extVars, global, nsobj, rt_closures, cell, runVars>>

\* main_context: the Global<Context> handle is released.
DropContext ==
    /\ phase = "dropping"
    /\ NextField = "main_context"
    /\ FieldDropped
    /\ UNCHANGED <<auxVars, traceVars, conv, ncalls, v8_initialized, extVars, rtVars, cell, runVars>>

\* _closures: the Arcs are released.
DropClosures ==
    /\ phase = "dropping"
    /\ NextField = "_closures"
    /\ heap' = FreeArcs(heap, rt_closures)
    /\ rt_closures' = <<>>
    /\ FieldDropped
    /\ UNCHANGED <<auxVars, traceVars, conv, ncalls, v8_initialized, namespace, declarations, closures, lastAdd,
                   isolate, global, nsobj, cell, runVars>>

\* _state: the Rc<RefCell<S>> is released.
DropState ==
    /\ phase = "dropping"
    /\ NextField = "_state"
    /\ cell' = [cell EXCEPT !.mem = "freed"]
    /\ FieldDropped
    /\ UNCHANGED <<auxVars, traceVars, conv, ncalls, v8_initialized, extVars, rtVars, runVars>>

\* ------------------------------------------------------ value conversion
\* Integers of the conversion layer. The 64-bit values and the big-integers
\* around them do not fit the model checker's integers, so an integer is
\* written hi * 2^64 + s * 2^e + off with hi, s in {-1, 0, 1}, e < 64 and a
\* small offset: the values next to zero and to the powers of two where the
\* conversions change their behaviour.
Pt(hi, s, e, off) == [hi |-> hi, s |-> s, e |-> e, off |-> off]

Zero == Pt(0, 0, 0, 0)

\* The exponents of the boundaries of the native integer types, of i32 and
\* u32 inside the 64-bit types, and of the safe-integer range.
Exps == {7, 8, 15, 16, 31, 32, 53, 63}

Pow2(w) == IF w = 64 THEN Pt(1, 0, 0, 0) ELSE Pt(0, 1, w, 0)

Neg(p) == Pt(-p.hi, -p.s, p.e, -p.off)

Plus(p, k) == [p EXCEPT !.off = @ + k]

\* One representation per integer: 2^64 - 2^63 is 2^63.
Norm(p) ==
    IF p.hi /= 0 /\ p.s = -p.hi /\ p.e = 63
    THEN Pt(0, p.hi, 63, p.off)
    ELSE p

\* The inputs of the conversions: the integers within MaxOff of zero, of
\* plus or minus 2^e for e in Exps, and of plus or minus 2^64.
Points ==
    {Pt(0, 0, 0, o) : o \in -MaxOff..MaxOff}
    \cup {Pt(0, s, e, o) : s \in {-1, 1}, e \in Exps, o \in -MaxOff..MaxOff}
    \cup {Pt(h, 0, 0, o) : h \in {-1, 1}, o \in -MaxOff..MaxOff}

\* The order of the integers: the bases are further apart than the offsets
\* reach, so the rank of the base decides first.
Key(p) == p.hi * 200 * (2 * MaxOff + 4) + p.s * p.e * (2 * MaxOff + 4) + p.off

Lt(p, q) == Key(p) < Key(q)

Le(p, q) == Key(p) <= Key(q)

\* The native integer types.
IntTypes == {"i8", "i16", "i32", "i64", "u8", "u16", "u32", "u64"}

Signed(T) == T \in {"i8", "i16", "i32", "i64"}

Width(T) ==
    CASE T \in {"i8", "u8"} -> 8
      [] T \in {"i16", "u16"} -> 16
      [] T \in {"i32", "u32"} -> 32
      [] T \in {"i64", "u64"} -> 64

\* T::MIN and T::MAX.
TMin(T) == IF Signed(T) THEN Neg(Pow2(Width(T) - 1)) ELSE Zero

TMax(T) == Plus(Pow2(IF Signed(T) THEN Width(T) - 1 ELSE Width(T)), -1)

\* T::try_from(x).is_ok()
InRange(T, p) == Le(TMin(T), p) /\ Le(p, TMax(T))

ValuesOf(T) == {p \in Points : InRange(T, p)}

\* `x as T` for a 64-bit T: the value modulo 2^64 that lies in T's range.
Wrap64(T, p) ==
    LET cands == {Norm([p EXCEPT !.hi = h]) : h \in {-1, 0, 1}}
    IN  CHOOSE q \in cands : InRange(T, q)

\* `x as i32` for a u32 x: the upper half wraps to the negative numbers.
AsI32(p) ==
    IF InRange("i32", p) THEN p
    ELSE IF p.e = 31 THEN Pt(0, -1, 31, p.off)
    ELSE Pt(0, 0, 0, p.off)

\* An integer that a 64-bit float holds exactly: up to 2^53 every integer,
\* up to 2^54 the even ones, near 2^63 and 2^64 the multiples of 2^10.
IsDouble(p) ==
    \/ Le(Neg(Pow2(53)), p) /\ Le(p, Pow2(53))
    \/ p.hi = 0 /\ p.e = 53 /\ p.off % 2 = 0
    \/ (p.hi = 0 \/ p.s = 0 \/ p.e = 53) /\ p.off = 0

\* `x as f64`: the nearest float, ties to the even mantissa.
AsF64(p) ==
    IF IsDouble(p) THEN p
    ELSE IF p.hi = 0 /\ p.e = 53
         THEN [p EXCEPT !.off = (IF @ < 0 THEN -1 ELSE 1) *
                                  4 * (((IF @ < 0 THEN -@ ELSE @) + 1) \div 4)]
    ELSE IF p.hi /= 0 /\ p.s /= 0 /\ p.e < 53 THEN Pt(p.hi, 0, 0, 0)
    ELSE [p EXCEPT !.off = 0]

\* 2^53 as the largest integer serialised as a number.
MAX_SAFE_INTEGER_pow53 == Pow2(53)

MAX_SAFE_INTEGER == Plus(Pow2(53), -1)

MIN_SAFE_INTEGER == Neg(Plus(Pow2(53), -1))

\* Engine values: a number (a 64-bit float, integral or with a fraction),
\* a big-integer of any size, or one of the other kinds.
Num(p) == [kind |-> "number", v |-> p, frac |-> FALSE]

Fraction(p) == [kind |-> "number", v |-> p, frac |-> TRUE]

Big(p) == [kind |-> "bigint", v |-> p, frac |-> FALSE]

Other(k) == [kind |-> k, v |-> Zero, frac |-> FALSE]

\* "object_calling" is an object whose toString calls a stateful native
\* function of the runtime.
OtherKinds == {"undefined", "null", "boolean", "string", "object", "object_calling"}

EngineValues ==
    {Num(p) : p \in {q \in Points : IsDouble(q)}}
    \cup {Fraction(p) : p \in {q \in Points : q.hi = 0 /\ q.e <= 32 /\ q.off >= 0}}
    \cup {Big(p) : p \in Points}
    \cup {Other(k) : k \in OtherKinds}

\* v8::Value::IsInt32, IsUint32.
IsInt32(val) == val.kind = "number" /\ ~val.frac /\ InRange("i32", val.v)

IsUint32(val) == val.kind = "number" /\ ~val.frac /\ InRange("u32", val.v)

\* Integer::try_from(value).is_ok(): the engine casts to Integer what is
\* an int32 or a uint32.
IsInteger(val) == IsInt32(val) \/ IsUint32(val)

\* Number::try_from, BigInt::try_from, Boolean::try_from.
IsNumber(val) == val.kind = "number"

IsBigInt(val) == val.kind = "bigint"

IsBoolean(val) == val.kind = "boolean"

\* Integer::new_from_u32 handing the bits to the engine as a signed value.
IntegerNewFromU32_signed(x) == Num(AsI32(x))

\* Integer::new_from_i32, Integer::new_from_u32: the engine makes a small
\* integer, or a heap number when the value is above i32::MAX.
IntegerNewFromI32(x) == Num(x)

IntegerNewFromU32(x) == Num(x)

\* Number::new on a float.
NumberNew(d) == Num(d)

\* BigInt::new_from_i64, BigInt::new_from_u64.
BigIntNew(x) == Big(x)

\* BigInt::value_i64 and value_u64: the value cut to 64 bits, and whether
\* nothing was cut.
ValueI64(p) == [val |-> Wrap64("i64", p), lossless |-> InRange("i64", p)]

ValueU64(p) == [val |-> Wrap64("u64", p), lossless |-> InRange("u64", p)]

\* Value::to_string_representation: the engine's string rendering of the
\* value.
Render(val) == <<"rendering of", val.kind, val.v, val.frac>>

\* No string was produced.
NoRendering == <<"no rendering", "-", Zero, FALSE>>

\* A TypeError without the rendering of the value.
CreateTypeError_noSource(msg, val) ==
    [tag |-> "TypeError", v |-> Zero, msg |-> msg, source |-> NoRendering, via |-> "none"]

\* create_type_error: the message and the rendering of the offending value.
CreateTypeError(msg, val) ==
    [tag |-> "TypeError", v |-> Zero, msg |-> msg, source |-> Render(val), via |-> "none"]

\* Ok(v) for the number v, reached through the engine type `via`.
Ok(v, via) == [tag |-> "Ok", v |-> v, msg |-> "", source |-> NoRendering, via |-> via]

\* Ok(s) for the string s.
OkString(s) == [tag |-> "Ok", v |-> Zero, msg |-> "", source |-> s, via |-> "none"]

\* Serialize for the native integer types.
Serialize(T, x) ==
    CASE T \in {"i8", "i16", "i32"} -> IntegerNewFromI32(x)
      [] T = "i64" ->
           IF Lt(MAX_SAFE_INTEGER, x) \/ Lt(x, MIN_SAFE_INTEGER) THEN BigIntNew(x)
           ELSE IF Lt(TMax("i32"), x) \/ Lt(x, TMin("i32")) THEN NumberNew(AsF64(x))
           ELSE IntegerNewFromI32(x)
      [] T \in {"u8", "u16", "u32"} -> IntegerNewFromU32(x)
      [] T = "u64" ->
           IF Lt(MAX_SAFE_INTEGER, x) THEN BigIntNew(x)
           ELSE IF Lt(TMax("u32"), x) THEN NumberNew(AsF64(x))
           ELSE IntegerNewFromU32(x)

\* IntoValue for u32, in its two variants: above i32::MAX the value becomes
\* a number, or in the other variant a big-integer.
IntoValueU32(variant, x) ==
    IF Lt(TMax("i32"), x)
    THEN IF variant = "value_traits" THEN NumberNew(AsF64(x)) ELSE BigIntNew(x)
    ELSE IntegerNewFromI32(AsI32(x))

\* The range check of an integer taken from the engine: T::try_from, which
\* the 64-bit targets leave out where the source type is the target type.
Checked(T, p, from, via, val) ==
    IF T = from \/ InRange(T, p) THEN Ok(p, via)
    ELSE CreateTypeError("Value not in range", val)

\* The big-integer branch with the lossless flag ignored.
FromBigInt_lossy(T, val) ==
    LET r == IF Signed(T) THEN ValueI64(val.v) ELSE ValueU64(val.v)
    IN  Checked(T, r.val, IF Signed(T) THEN "i64" ELSE "u64", "BigInt", val)

\* The big-integer branch: value_i64 for the signed targets, value_u64 for
\* the unsigned ones, the lossless flag, then the range check.
FromBigInt(T, val) ==
    LET r == IF Signed(T) THEN ValueI64(val.v) ELSE ValueU64(val.v)
    IN  IF ~r.lossless THEN CreateTypeError("Value not in range", val)
        ELSE Checked(T, r.val, IF Signed(T) THEN "i64" ELSE "u64", "BigInt", val)

\* Deserialize for the native integer types: Integer, then BigInt.
DeserializeInt(T, val) ==
    IF IsInteger(val) THEN Checked(T, val.v, "i64", "Integer", val)
    ELSE IF IsBigInt(val) THEN FromBigInt(T, val)
    ELSE CreateTypeError("Value can't be converted", val)

\* The order in which FromValue tries the engine types, per target type.
FromValueOrder(T) ==
    CASE T \in {"i8", "i16", "i32", "u16"} -> <<"Integer", "Int32", "Uint32", "BigInt">>
      [] T = "i64" -> <<"Integer", "BigInt", "Int32", "Uint32">>
      [] T \in {"u8", "u32"} -> <<"Integer", "Uint32", "Int32", "BigInt">>
      [] T = "u64" -> <<"Integer", "BigInt", "Uint32", "Int32">>

\* X::try_from(value).is_ok() for the engine type X.
TryFrom(X, val) ==
    CASE X = "Integer" -> IsInteger(val)
      [] X = "Int32" -> IsInt32(val)
      [] X = "Uint32" -> IsUint32(val)
      [] X = "BigInt" -> IsBigInt(val)

\* FromValue for the native integer types: the first engine type of the
\* order that the value casts to decides.
FromValueInt(T, val) ==
    LET order == FromValueOrder(T)
        hits == {i \in DOMAIN order : TryFrom(order[i], val)}
    IN  IF hits = {} THEN CreateTypeError("Value can't be converted", val)
        ELSE LET first == CHOOSE i \in hits : \A j \in hits : i <= j
                 X == order[first]
             IN  CASE X = "Integer" -> Checked(T, val.v, "i64", X, val)
                   [] X = "Int32" -> Checked(T, val.v, "i32", X, val)
                   [] X = "Uint32" -> Checked(T, val.v, "u32", X, val)
                   [] X = "BigInt" -> FromBigInt(T, val)

\* The target types of the conversion layer.
TargetTypes == IntTypes \cup {"unit", "bool", "String", "f32", "f64"}

\* Deserialize and FromValue for every target type.
DeserializeAs(api, T, val) ==
    CASE T = "unit" -> Ok(Zero, "none")
      [] T = "bool" -> IF IsBoolean(val) THEN Ok(Zero, "Boolean")
                       ELSE CreateTypeError("Value can't be converted", val)
      [] T = "String" -> OkString(Render(val))
      [] T \in {"f32", "f64"} -> IF IsNumber(val) THEN Ok(val.v, "Number")
                                 ELSE CreateTypeError("Value not a float", val)
      [] T \in IntTypes -> IF api = "Deserialize" THEN DeserializeInt(T, val)
                           ELSE FromValueInt(T, val)

Apis == {"Deserialize", "FromValue"}

\* The conversion did not return: a panic unwound through it.
Panicked ==
    [tag |-> "Panic", v |-> Zero, msg |-> "", source |-> NoRendering, via |-> "none"]

\* Rendering the value runs its toString; a toString that calls a stateful
\* native function panics in borrow_mut when the state is borrowed, which
\* it is (held = 1) while a stateful callback converts its arguments.
RenderPanics(val, held) ==
    val.kind = "object_calling" /\ ~CanBorrow([borrows |-> held])

\* deserialize called on val while `held` borrows of the state are out.
DeserializeIn(api, T, val, held) ==
    LET r == DeserializeAs(api, T, val)
    IN  IF r.source /= NoRendering /\ RenderPanics(val, held) THEN Panicked ELSE r

\* The conversion has not been applied yet.
Pending ==
    [tag |-> "Pending", v |-> Zero, msg |-> "", source |-> NoRendering, via |-> "none"]

\* The conversions to apply with their inputs: a round trip of a value x of
\* an integer type, the deserialization of an engine value into a target
\* type, and into_v8 of a u32 in one of the variants of IntoValue.
ConvInputs ==
    {[op |-> "round_trip", api |-> api, T |-> T, x |-> x, val |-> Other("undefined"),
      held |-> 0, res |-> Pending] : api \in Apis, T \in IntTypes, x \in Points}
    \cup {[op |-> "deserialize", api |-> api, T |-> T, x |-> Zero, val |-> val,
           held |-> held, res |-> Pending] :
             api \in Apis, T \in TargetTypes, val \in EngineValues, held \in {0, 1}}
    \cup {[op |-> "into_value", api |-> variant, T |-> "u32", x |-> x,
           val |-> Other("undefined"), held |-> 0, res |-> Pending] :
             variant \in {"value_traits", "value"}, x \in Points}

\* serialize(x) for a value x of T, then deserialize as T.
RoundTrip ==
    /\ conv.op = "round_trip"
    /\ conv.res = Pending
    /\ InRange(conv.T, conv.x)
    /\ conv' = [conv EXCEPT !.val = Serialize(conv.T, conv.x),
                            !.res = DeserializeIn(conv.api, conv.T,
                                                  Serialize(conv.T, conv.x), conv.held)]
    /\ UNCHANGED <<hostVars, auxVars>>

\* deserialize of a value that a script produced: the result of execute
\* (no borrow is out) or an argument of a native function.
DeserializeValue ==
    /\ conv.op = "deserialize"
    /\ conv.res = Pending
    /\ conv' = [conv EXCEPT !.res = DeserializeIn(conv.api, conv.T, conv.val, conv.held)]
    /\ UNCHANGED <<hostVars, auxVars>>

\* into_v8 of a u32 in one of the variants of IntoValue.
IntoValue ==
    /\ conv.op = "into_value"
    /\ conv.res = Pending
    /\ InRange(conv.T, conv.x)
    /\ conv' = [conv EXCEPT !.val = IntoValueU32(conv.api, conv.x),
                            !.res = Ok(Zero, "none")]
    /\ UNCHANGED <<hostVars, auxVars>>

\* The host before any add_* call, with no runtime.
InitHost ==
    /\ v8_initialized = FALSE
    /\ namespace \in [ExtIds -> Namespaces]
    /\ declarations = [e \in ExtIds |-> {}]
    /\ closures = [e \in ExtIds |-> <<>>]
    /\ heap = <<>>
    /\ lastAdd = [e \in ExtIds |-> [n \in Names |-> 0]]
    /\ phase = "setup"
    /\ isolate = "none"
    /\ global = EmptyObject
    /\ nsobj = [e \in ExtIds |-> EmptyObject]
    /\ rt_closures = <<>>
    /\ cell = [value |-> InitialState, borrows |-> 0, mem |-> "none", early |-> 0]
    /\ stack = <<>>
    /\ last = NoCall
    /\ result = NoResult
    /\ nexec = 0
    /\ ndropped = 0
    /\ ncalls = 0
    /\ steps = <<>>
    /\ installed = <<>>

Init ==
    /\ InitHost
    /\ conv = NoConv
    /\ once = NoOnce
    /\ rts = NoRts

\* The same host with a conversion and its input chosen.
InitConv ==
    /\ InitHost
    /\ conv \in ConvInputs
    /\ once = NoOnce
    /\ rts = NoRts

Next ==
    \/ \E e \in ExtIds, name \in Names, f \in HostFns : Add(e, name, f)
    \/ InitializeV8
    \/ RuntimeNew
    \/ RuntimeNewNotInitialized
    \/ \E e \in ExtIds : RuntimeNewBuildFails(e)
    \/ \E path \in Paths, args \in ArgTuples, fast \in BOOLEAN, retOk \in BOOLEAN :
          Execute(path, args, fast, retOk)
    \/ \E path \in Paths, args \in ArgTuples, fast \in BOOLEAN, retOk \in BOOLEAN :
          ToStringCall(path, args, fast, retOk)
    \/ Resume
    \/ \E T \in ResultTypes : ExecuteReturn(T)
    \/ \E T \in ResultTypes : ExecuteCompileError(T)
    \/ DropTerminate
    \/ DropIsolate
    \/ DropContext
    \/ DropClosures
    \/ DropState

Spec == Init /\ [][Next]_vars

\* The conversions applied to their inputs.
NextConv ==
    \/ RoundTrip
    \/ DeserializeValue
    \/ IntoValue

SpecConv == InitConv /\ [][NextConv]_vars

\* ------------------------------------------------------- initialize_v8
\* The threads of the process that call initialize_v8 and Runtime::new.
Threads == 1..MaxThreads

\* InitializationOptions: two valid settings, and ICU data that the engine
\* rejects (load_icu panics).
InitOptions == {"single_threaded", "multi_threaded", "bad_icu"}

\* A Once whose closure a second caller may enter while the first runs.
MayRunBody_racy(state) == state \in {"INCOMPLETE", "RUNNING"}

\* Once::call_once: the caller that finds the Once incomplete runs the
\* closure.
MayRunBody(state) == state = "INCOMPLETE"

\* No Runtime::new called on the thread yet.
NoNew == [status |-> "none", afterReturn |-> FALSE]

\* Some call of initialize_v8 has returned.
SomeCallReturned == \E t \in Threads : once.returned[t] > 0

\* A thread calls initialize_v8(opt): Once::call_once returns at once when
\* the Once is complete, panics when it is poisoned ("poisoned"), runs the
\* closure when it is incomplete, and otherwise blocks until the running
\* closure ends.
CallInitialize(t, opt) ==
    /\ once.pc[t] = "idle"
    /\ once.calls[t] < MaxInitCalls
    /\ once' = [once EXCEPT
          !.calls[t] = @ + 1,
          !.opt[t] = opt,
          !.pc[t] = CASE once.state = "COMPLETE" -> "idle"
                      [] once.state = "POISONED" -> "poisoned"
                      [] MayRunBody(once.state) -> "body"
                      [] OTHER -> "waiting",
          !.returned[t] = IF once.state = "COMPLETE" THEN @ + 1 ELSE @,
          !.noops = IF once.state = "COMPLETE" THEN @ + 1 ELSE @,
          !.state = IF once.state \in {"COMPLETE", "POISONED"} THEN @ ELSE "RUNNING",
          !.runs = IF once.state \notin {"COMPLETE", "POISONED"} /\ MayRunBody(once.state)
                   THEN @ + 1 ELSE @]
    /\ UNCHANGED <<hostVars, conv, rts>>

\* The closure of call_once ends on thread t: the platform and the engine
\* are initialised with the options of this call and the Once is complete,
\* or load_icu has panicked and the Once is poisoned.
BodyEnds(t) ==
    /\ once.pc[t] = "body"
    /\ once' = IF once.opt[t] = "bad_icu"
               THEN [once EXCEPT !.pc[t] = "panicked", !.state = "POISONED"]
               ELSE [once EXCEPT !.pc[t] = "idle",
                                 !.returned[t] = @ + 1,
                                 !.state = "COMPLETE",
                                 !.engine = Append(@, once.opt[t])]
    /\ UNCHANGED <<hostVars, conv, rts>>

\* A thread blocked in call_once is woken: the closure of the other thread
\* has ended.
Wake(t) ==
    /\ once.pc[t] = "waiting"
    /\ once.state \in {"COMPLETE", "POISONED"}
    /\ once' = IF once.state = "COMPLETE"
               THEN [once EXCEPT !.pc[t] = "idle", !.returned[t] = @ + 1,
                                 !.noops = @ + 1]
               ELSE [once EXCEPT !.pc[t] = "poisoned"]
    /\ UNCHANGED <<hostVars, conv, rts>>

\* Runtime::new on thread t: the check of V8_INITIALIZATION.is_completed().
ThreadRuntimeNew(t) ==
    /\ once.pc[t] = "idle"
    /\ once.new[t] = NoNew
    /\ once' = [once EXCEPT !.new[t] =
                  [status |-> IF once.state = "COMPLETE" THEN "ok" ELSE "V8NotInitialized",
                   afterReturn |-> SomeCallReturned]]
    /\ UNCHANGED <<hostVars, conv, rts>>

\* The process before any call of initialize_v8.
InitOnce ==
    /\ InitHost
    /\ conv = NoConv
    /\ rts = NoRts
    /\ once = [state |-> "INCOMPLETE", runs |-> 0, noops |-> 0, engine |-> <<>>,
               pc |-> [t \in Threads |-> "idle"],
               opt |-> [t \in Threads |-> "single_threaded"],
               calls |-> [t \in Threads |-> 0],
               returned |-> [t \in Threads |-> 0],
               new |-> [t \in Threads |-> NoNew]]

NextOnce ==
    \/ \E t \in Threads, opt \in InitOptions : CallInitialize(t, opt)
    \/ \E t \in Threads : BodyEnds(t)
    \/ \E t \in Threads : Wake(t)
    \/ \E t \in Threads : ThreadRuntimeNew(t)

SpecOnce == InitOnce /\ [][NextOnce]_vars

\* ------------------------------------------------- scripts on runtimes
\* The runtimes of the process, each made by Runtime::new with one global
\* extension that declares the stateful adding function f.
Runtimes == 1..MaxRuntimes

\* Values of script expressions.
IntValue(n) == [k |-> "int", n |-> n]

UndefinedValue == [k |-> "undefined", n |-> 0]

\* The global object of a fresh context: the template's native functions,
\* no script variable x and no script function g.
FreshContext == [x |-> UndefinedValue, xDeclared |-> FALSE, g |-> FALSE]

\* The sources given to execute, as their statements, with the type T the
\* host requests; "(" does not parse.
Sources ==
    {"var x = 1; x", "x += 2; x", "let g = function() { return f(); };", "g()",
     "f()", "x += 2; f(); throw 1", "x += 2; f(); (", "x += 2; f(); undefined"}

Statements(src) ==
    CASE src = "var x = 1; x" -> <<"var x = 1", "x">>
      [] src = "x += 2; x" -> <<"x += 2", "x">>
      [] src = "let g = function() { return f(); };" -> <<"let g">>
      [] src = "g()" -> <<"g()">>
      [] src = "f()" -> <<"f()">>
      [] src = "x += 2; f(); throw 1" -> <<"x += 2", "f()", "throw 1">>
      [] src = "x += 2; f(); (" -> <<"x += 2", "f()", "(">>
      [] src = "x += 2; f(); undefined" -> <<"x += 2", "f()", "undefined">>

RequestedType(src) ==
    IF src = "let g = function() { return f(); };" THEN "unit" ELSE "i32"

\* A compiler that accepts the statements before the syntax error.
Compile_prefix(src) ==
    [ok |-> TRUE, code |-> SelectSeq(Statements(src), LAMBDA st : st /= "(")]

\* v8::Script::compile: a source with a syntax error gives no script at
\* all.
Compile(src) ==
    IF \E i \in DOMAIN Statements(src) : Statements(src)[i] = "("
    THEN [ok |-> FALSE, code |-> <<>>]
    ELSE [ok |-> TRUE, code |-> Statements(src)]

\* An execute that runs the script in a context of its own.
EnterContext_fresh(rt) == FreshContext

\* HandleScope::with_context(&mut self.isolate, &self.main_context): every
\* execute runs in the context made by Runtime::new.
EnterContext(rt) == rt.main_context

\* A state pointer kept in one place for the whole process.
StateOf_shared(rt) == 1

\* scope.get_data(STATE_DATA_SLOT): the state cell whose pointer
\* Runtime::new stored in the isolate.
StateOf(rt) == rt.slot

\* One statement on the global object ctx and the state value cellv: the
\* new global object, the new state, the value of the statement, and
\* whether it threw. Reading or updating an undeclared x throws a
\* ReferenceError, calling an undefined g a TypeError, declaring g twice
\* with let a SyntaxError; f adds Delta to the state and returns it.
RunStatement(ctx, cellv, st) ==
    CASE st = "var x = 1" ->
           [ctx |-> [ctx EXCEPT !.x = IntValue(1), !.xDeclared = TRUE], cell |-> cellv,
            acc |-> UndefinedValue, thrown |-> FALSE]
      [] st = "x += 2" ->
           IF ctx.xDeclared
           THEN [ctx |-> [ctx EXCEPT !.x = IntValue(ctx.x.n + 2)], cell |-> cellv,
                 acc |-> IntValue(ctx.x.n + 2), thrown |-> FALSE]
           ELSE [ctx |-> ctx, cell |-> cellv, acc |-> UndefinedValue, thrown |-> TRUE]
      [] st = "x" ->
           [ctx |-> ctx, cell |-> cellv, acc |-> ctx.x, thrown |-> ~ctx.xDeclared]
      [] st = "let g" ->
           IF ctx.g
           THEN [ctx |-> ctx, cell |-> cellv, acc |-> UndefinedValue, thrown |-> TRUE]
           ELSE [ctx |-> [ctx EXCEPT !.g = TRUE], cell |-> cellv,
                 acc |-> UndefinedValue, thrown |-> FALSE]
      [] st = "g()" /\ ~ctx.g ->
           [ctx |-> ctx, cell |-> cellv, acc |-> UndefinedValue, thrown |-> TRUE]
      [] st \in {"f()", "g()"} ->
           [ctx |-> ctx, cell |-> BodyState("adder", cellv),
            acc |-> IntValue(BodyReturn("adder", cellv)), thrown |-> FALSE]
      [] st = "throw 1" ->
           [ctx |-> ctx, cell |-> cellv, acc |-> UndefinedValue, thrown |-> TRUE]
      [] st = "undefined" ->
           [ctx |-> ctx, cell |-> cellv, acc |-> UndefinedValue, thrown |-> FALSE]

\* What execute returns once the script has run: the exception as script
\* error, or the conversion of the completion value.
ExecuteResult(run, T) ==
    IF run.thrown THEN [status |-> "err_script", n |-> 0]
    ELSE [status |-> Deserialize(run.acc.k, T),
          n |-> IF Deserialize(run.acc.k, T) = "ok" THEN run.acc.n ELSE 0]

\* The script code run from its statement i on.
RECURSIVE RunFrom(_, _, _, _)
RunFrom(code, i, ctx, cellv) ==
    LET r == RunStatement(ctx, cellv, code[i])
    IN  IF r.thrown \/ i = Len(code) THEN r
        ELSE RunFrom(code, i + 1, r.ctx, r.cell)

\* execute(src) on a runtime that runs alone, with global object ctx and
\* state cellv.
RunAlone(src, ctx, cellv) ==
    IF ~Compile(src).ok
    THEN [ctx |-> ctx, cell |-> cellv, result |-> [status |-> "err_script", n |-> 0]]
    ELSE LET r == RunFrom(Compile(src).code, 1, ctx, cellv)
         IN  [ctx |-> r.ctx, cell |-> r.cell,
              result |-> ExecuteResult(r, RequestedType(src))]

NoScriptResult == [status |-> "none", n |-> 0]

\* execute(src) starts on runtime r: the source is compiled; a source that
\* does not compile ends the call with the script error.
ExecuteStart(r, src) ==
    LET rt == rts.rt[r]
        alone == RunAlone(src, rt.aloneCtx, rt.aloneCell)
        base == [rt EXCEPT !.nexec = @ + 1, !.src = src,
                           !.before = [ctx |-> rt.main_context, cell |-> rts.cells[r]],
                           !.aloneCtx = alone.ctx, !.aloneCell = alone.cell,
                           !.aloneResult = alone.result,
                           !.failedBefore = (rt.result.status \in {"err_script", "err_type"})]
    IN  /\ rts.mode = "run"
        /\ rt.pc = 0
        /\ rt.nexec < MaxScripts
        /\ rts' = [rts EXCEPT !.rt[r] =
              IF Compile(src).ok
              THEN [base EXCEPT !.pc = 1, !.code = Compile(src).code,
                                !.main_context = EnterContext(rt),
                                !.result = NoScriptResult]
              ELSE [base EXCEPT !.result = [status |-> "err_script", n |-> 0]]]
        /\ UNCHANGED <<hostVars, conv, once>>

\* The script of runtime r runs its next statement; after the last one, or
\* when the statement throws, execute returns.
ExecuteStatement(r) ==
    LET rt == rts.rt[r]
        c == StateOf(rt)
        run == RunStatement(rt.main_context, rts.cells[c], rt.code[rt.pc])
        done == run.thrown \/ rt.pc = Len(rt.code)
    IN  /\ rts.mode = "run"
        /\ rt.pc > 0
        /\ rts' = [rts EXCEPT
              !.cells[c] = run.cell,
              !.rt[r] = [rt EXCEPT
                  !.main_context = run.ctx,
                  !.written = IF rt.code[rt.pc] \in {"var x = 1", "x += 2"} /\ ~run.thrown
                              THEN run.acc.n + (IF rt.code[rt.pc] = "var x = 1" THEN 1 ELSE 0)
                              ELSE @,
                  !.bodies = IF run.cell /= rts.cells[c] THEN @ + 1 ELSE @,
                  !.defined = @ \/ (rt.code[rt.pc] = "let g" /\ ~run.thrown),
                  !.pc = IF done THEN 0 ELSE @ + 1,
                  !.result = IF done THEN ExecuteResult(run, RequestedType(rt.src))
                             ELSE @]]
        /\ UNCHANGED <<hostVars, conv, once>>

\* The state the host gives to Runtime::new for runtime r.
StateGiven(r) == InitialState * r

\* The runtimes after Runtime::new, before their first execute.
InitRts ==
    /\ InitHost
    /\ conv = NoConv
    /\ once = NoOnce
    /\ rts = [mode |-> "run",
              cells |-> [r \in Runtimes |-> StateGiven(r)],
              rt |-> [r \in Runtimes |->
                 [main_context |-> FreshContext, slot |-> r, pc |-> 0,
                  src |-> "f()", code |-> <<>>, nexec |-> 0,
                  result |-> NoScriptResult, written |-> 0, bodies |-> 0,
                  defined |-> FALSE,
                  before |-> [ctx |-> FreshContext, cell |-> StateGiven(r)],
                  failedBefore |-> FALSE,
                  aloneCtx |-> FreshContext, aloneCell |-> StateGiven(r),
                  aloneResult |-> NoScriptResult]]]

NextRts ==
    \/ \E r \in Runtimes, src \in Sources : ExecuteStart(r, src)
    \/ \E r \in Runtimes : ExecuteStatement(r)

SpecRts == InitRts /\ [][NextRts]_vars

\* ------------------------------------------------------ engine strings
\* v8::String::max_length() of the 64-bit engine, "include/v8-primitive.h".
V8MaxLength == 2^29 - 24

\* A limit one byte above the engine's.
MAX_STRING_LENGTH_above == 2^29 - 23

\* MAX_STRING_LENGTH of value/string.rs. The definition exists for 64-bit
\* targets only, so no other build of new_string exists.
MAX_STRING_LENGTH == 2^29 - 24

\* i32::MAX, the longest buffer String::new_from_utf8 hands to the engine.
MaxInt == 2147483647

\* Sources: k characters of w bytes each in UTF-8, around the limit and
\* around zero, with the string type asked for.
Utf8Widths == 1..4

StringTypes == {"Normal", "Internalized"}

SourceLengths(w) ==
    {k \in 0..MaxOff : TRUE}
    \cup {(MAX_STRING_LENGTH \div w) + d : d \in (0 - MaxOff)..MaxOff}

StringInputs ==
    UNION {{[op |-> "new_string", res |-> "pending", w |-> w, k |-> k, type |-> t,
             bytes |-> 0, units |-> 0, outcome |-> "none"] :
                k \in SourceLengths(w), t \in StringTypes} : w \in Utf8Widths}

\* string.as_ref().as_bytes().len()
ByteLength(src) == src.k * src.w

\* The UTF-16 length of the string the engine decodes from the first b
\* bytes of characters of w bytes: one unit per character of up to three
\* bytes, two per character of four, one replacement character for a
\* character cut short.
Utf16Units(b, w) ==
    (b \div w) * (IF w = 4 THEN 2 ELSE 1) + (IF b % w /= 0 THEN 1 ELSE 0)

\* v8::String::new_from_utf8: None for a buffer above i32::MAX and for a
\* string above the engine's maximal length.
NewFromUtf8(b, w) ==
    IF b > MaxInt \/ Utf16Units(b, w) > V8MaxLength
    THEN [some |-> FALSE, bytes |-> b, units |-> 0]
    ELSE [some |-> TRUE, bytes |-> b, units |-> Utf16Units(b, w)]

Min(a, b) == IF a <= b THEN a ELSE b

\* new_string: the first min(MAX_STRING_LENGTH, len) bytes go to the
\* engine; None from the engine panics in expect.
NewStringOf(src) ==
    LET max_length == Min(MAX_STRING_LENGTH, ByteLength(src))
        made == NewFromUtf8(max_length, src.w)
    IN  [res |-> IF made.some THEN "string" ELSE "panic",
         bytes |-> made.bytes, units |-> made.units]

\* execute builds the engine string of its source.
NewString ==
    /\ conv.op = "new_string"
    /\ conv.res = "pending"
    /\ conv' = [conv EXCEPT !.res = NewStringOf(conv).res,
                            !.bytes = NewStringOf(conv).bytes,
                            !.units = NewStringOf(conv).units]
    /\ UNCHANGED <<hostVars, auxVars>>

\* execute goes on with the string: it compiles and runs, or it fails with
\* the exception of the compiler or of the script; what the text says is
\* left open.
ExecuteString(outcome) ==
    /\ conv.op = "new_string"
    /\ conv.res = "string"
    /\ conv.outcome = "none"
    /\ conv' = [conv EXCEPT !.outcome = outcome]
    /\ UNCHANGED <<hostVars, auxVars>>

ExecuteOutcomes == {"ok", "err_script", "err_type"}

InitStr ==
    /\ InitHost
    /\ conv \in StringInputs
    /\ once = NoOnce
    /\ rts = NoRts

NextStr ==
    \/ NewString
    \/ \E outcome \in ExecuteOutcomes : ExecuteString(outcome)

SpecStr == InitStr /\ [][NextStr]_vars

\* ------------------------------------------------------------- properties
\* The function objects handed to the engine by Runtime::new.
InstalledFunctions ==
    {global[n] : n \in {m \in PropNames : global[m].t = "fn"}}
    \cup UNION {{nsobj[e][n] : n \in {m \in PropNames : nsobj[e][m].t = "fn"}} : e \in ExtIds}

\* The stateful callbacks suspended on the stack.
StatefulFrames == {i \in DOMAIN stack : Sig(stack[i].fn.callback).stateful}

\* The call record `last` is the record of a native call.
IsCall(rec) == rec.callback \in HostFns

\* C1: a stateful callback entered while another stateful callback of the
\* runtime holds the mutable borrow of the state cell panics in borrow_mut:
\* its body has not run, no argument was converted, the state is untouched,
\* and no callback that found the borrow taken is ever on the stack.
C1_ReentrantEntryPanics ==
    /\ (IsCall(last) /\ Sig(last.callback).stateful /\ last.heldAtEntry > 0) =>
          /\ last.completion = "panic"
          /\ phase = "aborted"
          /\ ~last.bodyRan
          /\ last.converted = {}
          /\ last.stateAfter = last.stateBefore
          /\ cell.value = last.stateBefore
    /\ \A i \in StatefulFrames : stack[i].heldAtEntry = 0

\* C1 witness: the fast path of a fastcall function was entered from the
\* toString of an argument of a stateful closure, and panicked.
C1_Witness ==
    /\ phase = "aborted"
    /\ last.completion = "panic"
    /\ last.callback = "add_to_state"
    /\ last.fast
    /\ Len(stack) = 1
    /\ stack[1].fn.callback = "adder"
    /\ cell.borrows = 1

\* C2: in every reachable state at most one mutable borrow of the state
\* cell is outstanding: the borrows are those of the suspended stateful
\* callbacks, there is at most one, and every stateful callback that went
\* past borrow_mut found no borrow taken.
C2_AtMostOneMutableBorrow ==
    /\ cell.borrows \in {0, 1}
    /\ cell.borrows = Cardinality(StatefulFrames)
    /\ (IsCall(last) /\ Sig(last.callback).stateful /\ last.completion /= "panic") =>
          last.heldAtEntry = 0

\* C2 witness: two callbacks are nested, and exactly one of them holds the
\* borrow.
C2_Witness ==
    /\ Len(stack) = 2
    /\ cell.borrows = 1
    /\ phase = "running"

\* C3: every stateful callback installed in the runtime was declared with
\* the runtime's state type.
C3_InstalledStateTypeIsS ==
    \A fn \in InstalledFunctions :
        Sig(fn.callback).stateful => Sig(fn.callback).stateType = RuntimeStateType

\* C4: the object behind the data pointer of every Closure declaration stays
\* allocated from registration (while it is declared in an extension) until
\* the isolate has been destroyed (while the isolate holds the function).
C4_ClosureDataStaysAllocated ==
    /\ phase = "setup" =>
          \A e \in ExtIds : \A p \in declarations[e] :
              p[2].kind = "Closure" => heap[p[2].cb_data].mem \in {"arc", "leaked"}
    /\ isolate \in {"alive", "terminated"} =>
          \A fn \in InstalledFunctions :
              fn.data.t = "closure" => heap[fn.data.obj].mem \in {"arc", "leaked"}

\* C4 witness: the drop has begun, the isolate is not yet destroyed, the
\* second add_function call overwrote the first one and its closure is
\* installed and allocated, as is the overwritten one.
C4_Witness ==
    /\ isolate = "terminated"
    /\ Len(heap) = 2
    /\ heap[1].mem = "arc"
    /\ heap[2].mem = "arc"
    /\ \A e \in ExtIds, n \in Names : lastAdd[e][n] /= 1
    /\ \E fn \in InstalledFunctions : fn.data.t = "closure" /\ fn.data.obj = 2

\* C5: the drop terminates execution before anything is dropped, the
\* closures and the state cell are freed only when the isolate is destroyed,
\* and once the drop has begun no native callback is running or has run.
C5_DropOrder ==
    /\ (phase = "dropping" /\ ndropped = 0) => isolate = "terminated"
    /\ phase \in {"dropping", "dropped"} =>
          /\ isolate \in {"terminated", "disposed"}
          /\ stack = <<>>
          /\ last = NoCall
          /\ cell.borrows = 0
    /\ cell.mem = "freed" => isolate = "disposed"
    /\ (phase \in {"dropping", "dropped"} /\ \E i \in DOMAIN heap : heap[i].mem = "freed") =>
          isolate = "disposed"

\* C5 witness: a runtime that has run a callback was dropped; its closure
\* and its state cell are freed.
C5_Witness ==
    /\ phase = "dropped"
    /\ nexec = 1
    /\ cell.value /= InitialState
    /\ cell.mem = "freed"
    /\ \E i \in DOMAIN heap : heap[i].mem = "freed"

\* C6: after any sequence of add_* calls an extension holds, for each name,
\* no declaration if the name was never added and otherwise exactly the
\* declaration built by the most recent add_* call with that name.
C6_OneDeclarationPerName ==
    phase = "setup" =>
        \A e \in ExtIds, n \in Names :
            LET ds == {p \in declarations[e] : p[1] = n} IN
            IF lastAdd[e][n] = 0 THEN ds = {}
            ELSE ds = {<<n, MakeDeclaration(heap[lastAdd[e][n]].fn, lastAdd[e][n])>>}

\* C6 witness: a name was added twice to one extension with different
\* calling conventions.
C6_Witness ==
    /\ phase = "setup"
    /\ Len(heap) = 2
    /\ Sig(heap[1].fn).api /= Sig(heap[2].fn).api
    /\ \E e \in ExtIds, n \in Names :
          /\ lastAdd[e][n] = 2
          /\ \A e2 \in ExtIds, n2 \in Names : lastAdd[e2][n2] /= 1

\* Extension e declares the name n (its last add_* call for n has an id).
Declares(e, n) == lastAdd[e][n] /= 0

\* What the call expression N.n resolves to for the namespace of extension e.
ViaNamespace(e, n) == Resolve([ns |-> namespace[e], name |-> n])

\* What the bare call expression n resolves to.
ViaGlobal(n) == Resolve([ns |-> NoNs, name |-> n])

\* The function object with identity id is a property of some namespace object.
InSomeNamespaceObject(id) ==
    \E e \in ExtIds, m \in PropNames : nsobj[e][m].t = "fn" /\ nsobj[e][m].id = id

\* The function object with identity id is a property of the global object.
IsBareGlobal(id) ==
    \E m \in PropNames : global[m].t = "fn" /\ global[m].id = id

\* C7 as stated: a function of a namespaced extension is reachable as
\* N.name and never as a bare global; a function of a global extension is
\* reachable as a bare global and is in no namespace object; when a
\* namespaced and a global extension declare the same name each call
\* expression reaches the function of its own extension.
C7_AsStated ==
    isolate = "alive" =>
        \A e \in ExtIds, n \in Names :
            Declares(e, n) =>
                IF namespace[e] /= NoNs
                THEN /\ ViaNamespace(e, n).id = lastAdd[e][n]
                     /\ ~IsBareGlobal(lastAdd[e][n])
                     /\ \A g \in ExtIds :
                           (namespace[g] = NoNs /\ Declares(g, n)) =>
                               ViaGlobal(n).id = lastAdd[g][n]
                ELSE /\ ViaGlobal(n).id = lastAdd[e][n]
                     /\ ~InSomeNamespaceObject(lastAdd[e][n])

\* The global property n is set again after extension e has set it: by a
\* later global extension declaring n, or by a namespace object named n.
GlobalShadowed(e, n) ==
    \/ \E g \in ExtIds : g > e /\ namespace[g] = NoNs /\ Declares(g, n)
    \/ \E g \in ExtIds : namespace[g] = n

\* The namespace of extension e is declared again by a later extension.
NamespaceShadowed(e) ==
    \E g \in ExtIds : g > e /\ namespace[g] = namespace[e]

\* C7 amended: a function of a namespaced extension is never a bare global
\* and is reached as N.name unless a later extension declares the namespace
\* N again; a function of a global extension is in no namespace object and
\* is reached as a bare global unless a later global extension declares the
\* same name or a namespace of that name exists.
C7_NamespaceIsolation ==
    isolate = "alive" =>
        \A e \in ExtIds, n \in Names :
            Declares(e, n) =>
                IF namespace[e] /= NoNs
                THEN /\ ~IsBareGlobal(lastAdd[e][n])
                     /\ ~NamespaceShadowed(e) => ViaNamespace(e, n).id = lastAdd[e][n]
                     /\ NamespaceShadowed(e) => ViaNamespace(e, n).id /= lastAdd[e][n]
                ELSE /\ ~InSomeNamespaceObject(lastAdd[e][n])
                     /\ ~GlobalShadowed(e, n) => ViaGlobal(n).id = lastAdd[e][n]
                     /\ GlobalShadowed(e, n) => ViaGlobal(n).id /= lastAdd[e][n]

\* C7 witness: a namespaced and a global extension declare the name f, and
\* a script call has reached the function of the namespaced one.
C7_Witness ==
    /\ phase = "returning"
    /\ \E e, g \in ExtIds :
          /\ namespace[e] /= NoNs
          /\ namespace[g] = NoNs
          /\ Declares(e, "f")
          /\ Declares(g, "f")
          /\ last.id = lastAdd[e]["f"]
          /\ last.bodyRan

\* C8: the last-installed entry of a duplicated name is the one script sees
\* and nothing is merged. Two extensions with the same namespace: the global
\* property is the object of the later one, a name resolves in it alone, and
\* a function only the earlier one declares is unreachable. Two global
\* extensions with the same function name: the bare name is the function of
\* the later one.
C8_LastInstalledWins ==
    isolate = "alive" =>
        \A e1, e2 \in ExtIds :
            e1 < e2 =>
                /\ (namespace[e1] /= NoNs /\ namespace[e1] = namespace[e2]) =>
                      /\ global[namespace[e1]].t = "ns"
                      /\ global[namespace[e1]].ext = e2
                      /\ \A n \in Names :
                            /\ Declares(e2, n) => ViaNamespace(e1, n).id = lastAdd[e2][n]
                            /\ ~Declares(e2, n) => ViaNamespace(e1, n).t = "undefined"
                            /\ Declares(e1, n) =>
                                  /\ ViaNamespace(e1, n).id /= lastAdd[e1][n]
                                  /\ ~IsBareGlobal(lastAdd[e1][n])
                /\ (namespace[e1] = NoNs /\ namespace[e2] = NoNs) =>
                      \A n \in Names :
                          (Declares(e1, n) /\ Declares(e2, n)) =>
                              /\ ViaGlobal(n).id = lastAdd[e2][n]
                              /\ ~InSomeNamespaceObject(lastAdd[e1][n])

\* C8 witness: two extensions declare the namespace a, the earlier one
\* declares f alone, and a script call has reached a function of the later.
C8_Witness ==
    /\ phase = "returning"
    /\ namespace[1] = "a"
    /\ namespace[2] = "a"
    /\ Declares(1, "f")
    /\ ~Declares(2, "f")
    /\ Declares(2, "a")
    /\ last.id = lastAdd[2]["a"]

\* The record is that of a call whose argument conversion failed.
ArgumentFailed(rec) == IsCall(rec) /\ rec.failedArg > 0

\* C9 as stated: when the conversion of argument i fails, the arguments
\* after i are not converted, the body is not invoked, and the host state
\* is as it was before the call.
C9_AsStated ==
    ArgumentFailed(last) =>
        /\ \A j \in last.converted : j <= last.failedArg
        /\ ~last.bodyRan
        /\ last.stateAfter = last.stateBefore

\* C9 amended: when the conversion of argument i fails, the arguments after
\* i are not converted and the body is not invoked; the host state is as it
\* was before the call unless the offending value's string coercion called
\* native functions, and it always is for a stateful callback, which holds
\* the borrow meanwhile.
C9_FirstFailureStops ==
    ArgumentFailed(last) =>
        /\ \A j \in last.converted : j <= last.failedArg
        /\ last.failedArg \in last.converted
        /\ ~last.bodyRan
        /\ last.nested = 0 => last.stateAfter = last.stateBefore
        /\ Sig(last.callback).stateful => last.stateAfter = last.stateBefore

\* C9 witness: the first of the two arguments of the stateful closure
\* failed to convert and the call has returned to the script.
C9_Witness ==
    /\ phase = "returning"
    /\ last.callback = "adder"
    /\ last.failedArg = 1
    /\ last.converted = {1}
    /\ cell.value = InitialState

\* C10 as stated: a failed argument or return-value conversion is thrown to
\* the script (the call does not complete with a value), and uncaught it
\* makes execute return an error.
C10_ConversionFailureIsThrown ==
    /\ (IsCall(last) /\ last.value = "type_error") => last.completion = "throw"
    /\ result.value = "type_error" => result.status /= "ok"

\* The adding closure is the only installed function that writes the state.
OnlyAdderMutates ==
    \A fn \in InstalledFunctions :
        fn.callback \notin {"sub_from_state", "add_to_state"}

\* C11: on a runtime with initial state s whose only mutating function adds
\* d and returns the new value, the k-th call whose body runs (counted over
\* all execute calls, in call order) finds the state s + (k-1)*d, leaves it
\* at s + k*d and returns s + k*d.
C11_KthCallReturns ==
    (IsCall(last) /\ last.callback = "adder" /\ last.bodyRan /\ OnlyAdderMutates) =>
        /\ ncalls >= 1
        /\ last.stateBefore = InitialState + (ncalls - 1) * Delta
        /\ last.ret = InitialState + ncalls * Delta
        /\ last.stateAfter = last.ret
        /\ cell.value = last.ret

\* C11 witness: the second execute call of the adding closure has returned
\* s + 2*d to the script.
C11_Witness ==
    /\ phase = "returning"
    /\ nexec = 2
    /\ ncalls = 2
    /\ last.callback = "adder"
    /\ last.bodyRan
    /\ last.ret = InitialState + 2 * Delta
    /\ OnlyAdderMutates

\* The step is a failed compilation of the source passed to execute.
CompileFailed == phase = "ready" /\ phase' = "ready" /\ nexec' = nexec + 1

\* The step is the return of execute after a run that ended with an
\* uncaught exception.
RunThrew == phase = "returning" /\ last.completion = "throw" /\ phase' = "ready"

\* C18: when the compilation of the source fails or the run ends with an
\* uncaught exception, execute returns the EcmaScript error with the
\* rendered message and the line number, and no other error kind.
C18_ScriptError ==
    [][(CompileFailed \/ RunThrew) =>
          /\ result'.status = "err_script"
          /\ result'.value = "message, line"]_vars

\* C18 witness: both executes of a runtime have returned, the second one
\* with the script error.
C18_Witness ==
    /\ phase = "ready"
    /\ nexec = 2
    /\ result.status = "err_script"
    /\ result.value = "message, line"

\* C19: when the run completed with a value that does not convert to the
\* requested type (a value that is no integer, requested as i32), execute
\* has returned the type error, neither Ok nor the script error.
C19_ConversionFailureIsTypeError ==
    (result.type = "i32" /\ result.value \in {"undefined", "custom", "type_error"}) =>
        result.status = "err_type"

\* C19 witness: execute::<i32> of a call that returned undefined has
\* returned the type error.
C19_Witness ==
    /\ phase = "ready"
    /\ result.type = "i32"
    /\ result.value = "undefined"
    /\ result.status = "err_type"

\* Runtime::new has returned V8NotInitialized exactly in the states where
\* the construction failed; then the engine is not initialised, no isolate
\* exists and nothing is installed; a constructed runtime implies the
\* initialised engine.
NotInitializedOutcome ==
    /\ (result.status = "V8NotInitialized") <=> (phase = "new_failed")
    /\ phase = "new_failed" =>
          /\ ~v8_initialized
          /\ isolate = "none"
          /\ cell.mem = "none"
          /\ global = EmptyObject
          /\ nsobj = [e \in ExtIds |-> EmptyObject]
          /\ rt_closures = <<>>
    /\ phase \notin {"setup", "new_failed"} => v8_initialized

\* C20: Runtime::new returns V8NotInitialized exactly when the engine
\* initialisation has not completed at the call; then no isolate is created
\* and no declaration installed, and the failed construction is final: no
\* later step constructs the runtime.
C20_V8NotInitialized ==
    [][/\ NotInitializedOutcome'
       /\ (phase = "setup" /\ phase' /= "setup") =>
             (phase' = "new_failed" <=> ~v8_initialized)
       /\ phase = "new_failed" => phase' = "new_failed"]_vars

\* C20 witness: Runtime::new has failed with declarations made before it.
C20_Witness ==
    /\ phase = "new_failed"
    /\ result.status = "V8NotInitialized"
    /\ \E e \in ExtIds, n \in Names : lastAdd[e][n] /= 0

\* A conversion of the kind op has been applied.
Applied(op) == conv.op = op /\ conv.res /= Pending

\* C12 as stated: for every native integer type T and every value x of T,
\* deserializing as T the engine value that serializing x produced yields
\* Ok(x).
C12_RoundTrip ==
    Applied("round_trip") => (conv.res.tag = "Ok" /\ conv.res.v = conv.x)

\* C13: serializing an i64 or u64 value x yields a number that is an int32
\* exactly when x is within the i32 range, a number that is no int32
\* exactly when x is outside the i32 range and |x| <= 2^53 - 1, and a
\* big-integer exactly when |x| > 2^53 - 1; the engine value holds x.
C13_RepresentationTiers ==
    (Applied("round_trip") /\ conv.T \in {"i64", "u64"}) =>
        LET safe == /\ Le(Neg(Plus(Pow2(53), -1)), conv.x)
                    /\ Le(conv.x, Plus(Pow2(53), -1))
        IN  /\ IsInt32(conv.val) <=> InRange("i32", conv.x)
            /\ (IsNumber(conv.val) /\ ~IsInt32(conv.val)) <=>
                  (~InRange("i32", conv.x) /\ safe)
            /\ IsBigInt(conv.val) <=> ~safe
            /\ conv.val.v = conv.x
            /\ ~conv.val.frac

\* C13 witness: 2^53 as a u64 has been serialized, to a big-integer.
C13_Witness ==
    /\ Applied("round_trip")
    /\ conv.T = "u64"
    /\ conv.x = Pow2(53)
    /\ IsBigInt(conv.val)

\* C14: serializing a u32 value x, through Serialize or either variant of
\* IntoValue, yields an int32 when x <= i32::MAX and otherwise a number or
\* a big-integer; in every case the engine value holds exactly x, so it is
\* never negative.
C14_U32Promotion ==
    ((Applied("round_trip") /\ conv.T = "u32") \/ Applied("into_value")) =>
        /\ Le(conv.x, TMax("i32")) => IsInt32(conv.val)
        /\ conv.val.kind \in {"number", "bigint"}
        /\ ~conv.val.frac
        /\ conv.val.v = conv.x
        /\ Le(Zero, conv.val.v)

\* C14 witness: u32::MAX has been serialized, to a number that is no int32.
C14_Witness ==
    /\ Applied("round_trip")
    /\ conv.T = "u32"
    /\ conv.x = TMax("u32")
    /\ IsNumber(conv.val)
    /\ ~IsInt32(conv.val)

\* C15: deserializing an engine integer (an int32 or uint32) or a
\* big-integer v into an integer type T returns Ok(v) when v lies within
\* T's range and a TypeError otherwise; an Ok never carries another value
\* than v.
C15_RangeChecked ==
    (Applied("deserialize") /\ conv.T \in IntTypes
       /\ (IsInteger(conv.val) \/ IsBigInt(conv.val))) =>
        IF InRange(conv.T, conv.val.v)
        THEN conv.res.tag = "Ok" /\ conv.res.v = conv.val.v
        ELSE conv.res.tag = "TypeError"

\* C15 witness: the big-integer 2^64 has been deserialized into u64, with
\* a TypeError.
C15_Witness ==
    /\ Applied("deserialize")
    /\ conv.T = "u64"
    /\ conv.val = Big(Pow2(64))
    /\ conv.res.tag = "TypeError"

\* C16 as stated: deserializing into an integer type fails with a
\* TypeError only if no representation of the value (integer, big-integer
\* or float) fits or the value is outside the target's range: an integral
\* number or a big-integer within the range gives Ok.
C16_FailsOnlyIfNothingFits ==
    (Applied("deserialize") /\ conv.T \in IntTypes
       /\ conv.val.kind \in {"number", "bigint"} /\ ~conv.val.frac
       /\ InRange(conv.T, conv.val.v)) =>
        conv.res.tag = "Ok"

\* C17 as stated: deserializing any kind of engine value into any target
\* type ends with Ok or with a TypeError that carries the rendering of the
\* value; it never panics.
C17_AsStated ==
    Applied("deserialize") =>
        /\ conv.res.tag \in {"Ok", "TypeError"}
        /\ conv.res.tag = "TypeError" => conv.res.source = Render(conv.val)

\* C17 amended: deserialization ends with Ok or with a TypeError that
\* carries a message and the rendering of the value, except that it panics
\* when the value has to be rendered, is an object whose toString calls a
\* stateful native function, and the state is borrowed at that time.
C17_OkOrTypeError ==
    Applied("deserialize") =>
        /\ conv.res.tag \in {"Ok", "TypeError", "Panic"}
        /\ conv.res.tag = "TypeError" =>
              (conv.res.source = Render(conv.val) /\ conv.res.msg /= "")
        /\ conv.res.tag = "Panic" <=>
              /\ conv.val.kind = "object_calling"
              /\ conv.held = 1
              /\ conv.T \in TargetTypes \ {"unit"}

\* C17 witness: an object has been deserialized into bool while the state
\* was borrowed, with a TypeError that renders the object.
C17_Witness ==
    /\ Applied("deserialize")
    /\ conv.T = "bool"
    /\ conv.held = 1
    /\ conv.val = Other("object")
    /\ conv.res.tag = "TypeError"
    /\ conv.res.source = Render(Other("object"))

\* C21 as stated: in every interleaving the initialization body runs at
\* most once and every call other than the one that runs it is a no-op:
\* none of them panics.
C21_AsStated ==
    once.state /= "unused" =>
        /\ once.runs <= 1
        /\ \A t \in Threads : once.pc[t] /= "poisoned"

\* C21 amended: the initialization body is entered at most once and only
\* its options reach the engine; a call returns only when initialization
\* has completed, every call that does not run the body and returns is a
\* no-op, and a Runtime::new that starts after a call has returned does
\* not fail with V8NotInitialized. When the body panics the Once is
\* poisoned: the other calls panic too and no call ever returns.
C21_InitializedOnce ==
    once.state /= "unused" =>
        /\ once.runs <= 1
        /\ Len(once.engine) <= 1
        /\ SomeCallReturned =>
              /\ once.state = "COMPLETE"
              /\ once.runs = 1
              /\ Len(once.engine) = 1
        /\ once.noops > 0 => once.state = "COMPLETE"
        /\ \A t \in Threads :
              /\ once.new[t].afterReturn => once.new[t].status = "ok"
              /\ once.pc[t] \in {"panicked", "poisoned"} =>
                    (once.state = "POISONED" /\ ~SomeCallReturned)

\* C21 witness: both threads have called initialize_v8 twice with
\* different options, one body ran, three calls were no-ops, and a
\* Runtime::new made afterwards succeeded.
C21_Witness ==
    /\ once.state = "COMPLETE"
    /\ once.runs = 1
    /\ once.noops = 3
    /\ once.opt[1] /= once.opt[2]
    /\ \E t \in Threads : once.new[t] = [status |-> "ok", afterReturn |-> TRUE]

C24_GlobalsPersist ==
    rts.mode = "run" =>
        \A r \in Runtimes :
            LET rt == rts.rt[r]
            IN  /\ rt.written > 0 =>
                      rt.main_context.xDeclared /\ rt.main_context.x = IntValue(rt.written)
                /\ rt.defined => rt.main_context.g
                /\ (rt.pc = 0 /\ rt.src \in {"var x = 1; x", "x += 2; x"} /\ rt.written > 0) =>
                      rt.result = [status |-> "ok", n |-> rt.written]
                /\ (rt.pc = 0 /\ rt.src = "g()" /\ rt.defined) =>
                      rt.result = [status |-> "ok", n |-> rts.cells[r]]

\* A second execute has returned 3 for "x += 2; x" on one runtime, and on
\* the other a second execute has called the g of the first.
C24_Witness ==
    /\ rts.mode = "run"
    /\ rts.rt[1].pc = 0
    /\ rts.rt[1].nexec = 2
    /\ rts.rt[1].src = "x += 2; x"
    /\ rts.rt[1].result = [status |-> "ok", n |-> 3]
    /\ rts.rt[2].pc = 0
    /\ rts.rt[2].nexec = 2
    /\ rts.rt[2].src = "g()"
    /\ rts.rt[2].defined
    /\ rts.rt[2].bodies = 1

\* C30: a failing execute is not rolled back and does not disable the
\* runtime. When "x += 2; f(); throw 1" has failed with the script error,
\* or "x += 2; f(); undefined" with the type error of the conversion to
\* i32, on a runtime where x was declared, x is 2 more and the state Delta
\* more than before the call; when "x += 2; f(); (" has failed to compile,
\* globals and state are those from before the call; and an execute of
\* "f()" after a failed one returns the state f left.
C30_FailureKeepsEffects ==
    rts.mode = "run" =>
        \A r \in Runtimes :
            LET rt == rts.rt[r]
                kept == /\ rt.main_context.x = IntValue(rt.before.ctx.x.n + 2)
                        /\ rts.cells[r] = rt.before.cell + Delta
            IN  (rt.pc = 0 /\ rt.nexec > 0) =>
                  /\ (rt.src = "x += 2; f(); throw 1" /\ rt.before.ctx.xDeclared) =>
                        rt.result.status = "err_script" /\ kept
                  /\ (rt.src = "x += 2; f(); undefined" /\ rt.before.ctx.xDeclared) =>
                        rt.result.status = "err_type" /\ kept
                  /\ rt.src = "x += 2; f(); (" =>
                        /\ rt.result.status = "err_script"
                        /\ rt.main_context = rt.before.ctx
                        /\ rts.cells[r] = rt.before.cell
                  /\ (rt.src = "f()" /\ rt.failedBefore) =>
                        rt.result = [status |-> "ok", n |-> rts.cells[r]]

\* Runtime 1 has failed in the conversion of the result after assigning x
\* and calling f; runtime 2 has returned from f in the execute after a
\* failed one.
C30_Witness ==
    /\ rts.mode = "run"
    /\ rts.rt[1].pc = 0
    /\ rts.rt[1].src = "x += 2; f(); undefined"
    /\ rts.rt[1].result.status = "err_type"
    /\ rts.rt[1].main_context.x = IntValue(3)
    /\ rts.rt[1].bodies = 1
    /\ rts.rt[2].pc = 0
    /\ rts.rt[2].src = "f()"
    /\ rts.rt[2].failedBefore
    /\ rts.rt[2].result.status = "ok"
    /\ rts.rt[2].bodies = 1

C25_TruncatedNeverFails ==
    (conv.op = "new_string" /\ conv.res /= "pending") =>
        /\ conv.res = "string"
        /\ ByteLength(conv) <= MAX_STRING_LENGTH => conv.bytes = ByteLength(conv)
        /\ ByteLength(conv) > MAX_STRING_LENGTH => conv.bytes = MAX_STRING_LENGTH
        /\ conv.units <= V8MaxLength
        /\ conv.outcome \in {"none"} \cup ExecuteOutcomes

\* A source of three-byte characters that is longer than the limit was cut
\* inside a character, and execute ran the string.
C25_Witness ==
    /\ conv.op = "new_string"
    /\ conv.w = 3
    /\ ByteLength(conv) > MAX_STRING_LENGTH
    /\ conv.bytes = MAX_STRING_LENGTH
    /\ conv.bytes % conv.w /= 0
    /\ conv.outcome = "ok"

C27_EachInstalledOnce ==
    steps = NewSteps =>
        /\ \A e \in ExtIds, n \in Names :
              lastAdd[e][n] /= 0 =>
                  /\ Cardinality({i \in DOMAIN installed :
                        installed[i].ext = e /\ installed[i].name = n}) = 1
                  /\ \A i \in DOMAIN installed :
                        (installed[i].ext = e /\ installed[i].name = n) =>
                            /\ installed[i].id = lastAdd[e][n]
                            /\ installed[i].target =
                                  (IF namespace[e] = NoNs THEN "global_template"
                                   ELSE "namespace_object")
        /\ \A i \in DOMAIN installed :
              /\ installed[i].name \in Names
              /\ lastAdd[installed[i].ext][installed[i].name] = installed[i].id
        /\ \A e \in ExtIds, n \in PropNames :
              IF namespace[e] /= NoNs /\ n \in Names /\ lastAdd[e][n] /= 0
              THEN nsobj[e][n].t = "fn" /\ nsobj[e][n].id = lastAdd[e][n]
              ELSE nsobj[e][n] = Undefined
        /\ \A e \in ExtIds : declarations[e] = {} /\ closures[e] = <<>>
        /\ phase \notin {"dropping", "dropped"} =>
              \A i \in DOMAIN heap :
                  Sig(heap[i].fn).api = "add_function" =>
                      /\ heap[i].mem = "arc"
                      /\ Cardinality({k \in DOMAIN rt_closures : rt_closures[k] = i}) = 1

\* A runtime was constructed from a global extension and a namespaced
\* extension that each declared a closure.
C27_Witness ==
    /\ steps = NewSteps
    /\ Len(installed) = 2
    /\ \E i, j \in DOMAIN installed :
          /\ installed[i].target = "global_template"
          /\ installed[j].target = "namespace_object"
    /\ Len(rt_closures) = 2

\* C28: the trampoline of a Closure declaration is the one instantiated
\* for the function type of the object behind its data pointer, at every
\* moment. In an extension the data pointer of the declaration under a
\* name is the object of the latest add_* call for that name and its
\* trampoline is the one of that object's function; the same holds for
\* every closure function installed in a runtime; and no invocation casts
\* the data to another type: the body run is that of the function
\* registered last.
C28_TrampolineMatchesData ==
    /\ \A e \in ExtIds : \A p \in declarations[e] :
          p[2].kind = "Closure" =>
              /\ p[2].cb_data = lastAdd[e][p[1]]
              /\ heap[p[2].cb_data].fn = p[2].callback
    /\ \A e \in ExtIds : \A p, q \in declarations[e] : p[1] = q[1] => p = q
    /\ \A fn \in InstalledFunctions :
          fn.data.t = "closure" =>
              /\ fn.data.obj \in DOMAIN heap
              /\ Recovered(fn) = fn.callback
    /\ \A n \in Names :
          /\ (global[n].t = "fn" /\ global[n].data.t = "closure") =>
                global[n].data.obj = lastAdd[global[n].ext][n]
          /\ \A e \in ExtIds :
                (nsobj[e][n].t = "fn" /\ nsobj[e][n].data.t = "closure") =>
                    nsobj[e][n].data.obj = lastAdd[e][n]
    /\ last.completion /= "wild_cast"
    /\ (last.bodyRan /\ Sig(last.callback).api \in {"add_function", "add_function_with_state"}) =>
          heap[last.id].fn = last.callback

\* A closure registered under a name that held a closure of another type
\* before has run from script.
C28_Witness ==
    /\ Len(heap) = 2
    /\ heap[1].fn /= heap[2].fn
    /\ Sig(heap[1].fn).api \in {"add_function", "add_function_with_state"}
    /\ Cardinality({x \in ExtIds \X Names : lastAdd[x[1]][x[2]] /= 0}) = 1
    /\ last.bodyRan
    /\ last.id = 2
    /\ Sig(last.callback).api \in {"add_function", "add_function_with_state"}

\* C29: the borrow of a stateful callback ends on every return path. No
\* borrow is outstanding when no native callback is suspended, so none is
\* when execute returns or between two executes, however many stateful
\* callbacks have returned early after a failed argument conversion; and a
\* stateful call is rejected by borrow_mut only while a stateful callback
\* is still suspended, never on account of a callback that has returned.
C29_BorrowReleased ==
    /\ stack = <<>> => cell.borrows = 0
    /\ phase \in {"ready", "returning", "dropping", "dropped"} =>
          stack = <<>> /\ cell.borrows = 0
    /\ (IsCall(last) /\ last.completion = "panic") =>
          /\ StatefulFrames /= {}
          /\ phase = "aborted"
    /\ (IsCall(last) /\ last.completion /= "panic" /\ Sig(last.callback).stateful
            /\ phase /= "aborted") =>
          cell.borrows <= Cardinality(StatefulFrames)

\* After a stateful callback has returned early from a failed argument
\* conversion, a later execute has run the body of a stateful function.
C29_Witness ==
    /\ cell.early >= 1
    /\ nexec = 2
    /\ phase = "returning"
    /\ last.bodyRan
    /\ Sig(last.callback).stateful
    /\ last.heldAtEntry = 0

====
